---- MODULE Spec2Model ----
(***************************************************************************)
(* A model of the API Context Hub documentation application: the content  *)
(* store (lib/api-content.ts), the GET /api/export route, the document    *)
(* exporters, the export buttons, the download helper, the content        *)
(* regeneration job, the copy button and the language provider.           *)
(*                                                                         *)
(* Text is a sequence of tokens.  Document content and API names are      *)
(* sequences of one-character strings, so that the regular-expression     *)
(* substitutions of the exporters can be computed character by character; *)
(* fixed literals of the templates are single tokens.                     *)
(***************************************************************************)
EXTENDS Integers, Sequences, FiniteSets, TLC

VARIABLES
  \* the contents directory and the requests served from it
  disk,            \* contents/<id>: whether it exists, can be listed, its entries
  getPc,           \* GET /api/export: "idle", "loading", "responded"
  loads,           \* the promise of each apiIds.map callback, by index
  completionOrder, \* the indices of the callbacks in the order they settled
  response,        \* the response of GET /api/export
  pagePc,          \* the documentation page: "idle", "done"
  pageReq,         \* params.apiId of the page request
  pageResult,      \* what the page request ended with
  \* the plain-text transform
  stripPc,         \* "idle", "in", "once", "twice"
  stripIn,         \* the content handed to the plain-text transform
  stripOnce,       \* the transform applied once
  stripTwice,      \* the transform applied to its own output
  \* export calls in flight
  calls,           \* per call: its options, position, text buffer, clock reads, result
  clock,           \* the index of the value new Date() returns now
  \* the export buttons
  inv,             \* per handler invocation: its position and what it has done
  isExporting,     \* the isExporting state of each button component
  running,         \* the invocation whose synchronous code is running, or 0
  \* the content regeneration job
  fs,              \* contents/<api>: missing, a regular file, or its files
  jobPc,           \* the collector and the file main has reached
  jobLog,          \* what main has logged with console.error
  snapshots,       \* the contents directory at the start and after each run
  \* the copy button and the language provider
  copy,            \* a CopyButton: its state, its clipboard writes and its timers
  i18n             \* the I18nProvider, localStorage.language and navigator.language

vars ==
  <<disk, getPc, loads, completionOrder, response, pagePc, pageReq, pageResult,
    stripPc, stripIn, stripOnce, stripTwice, calls, clock,
    inv, isExporting, running, fs, jobPc, jobLog, snapshots, copy, i18n>>

\* What the actions of one part of the model leave alone.
notRouteVars ==
  <<stripPc, stripIn, stripOnce, stripTwice, calls, clock,
    inv, isExporting, running, fs, jobPc, jobLog, snapshots, copy, i18n>>
notStripVars ==
  <<disk, getPc, loads, completionOrder, response, pagePc, pageReq, pageResult,
    calls, clock, inv, isExporting, running, fs, jobPc, jobLog, snapshots, copy, i18n>>
notExportVars ==
  <<disk, getPc, loads, completionOrder, response, pagePc, pageReq, pageResult,
    stripPc, stripIn, stripOnce, stripTwice,
    inv, isExporting, running, fs, jobPc, jobLog, snapshots, copy, i18n>>
notButtonVars ==
  <<disk, getPc, loads, completionOrder, response, pagePc, pageReq, pageResult,
    stripPc, stripIn, stripOnce, stripTwice, calls, clock,
    fs, jobPc, jobLog, snapshots, copy, i18n>>
notJobVars ==
  <<disk, getPc, loads, completionOrder, response, pagePc, pageReq, pageResult,
    stripPc, stripIn, stripOnce, stripTwice, calls, clock,
    inv, isExporting, running, copy, i18n>>
notCopyVars ==
  <<disk, getPc, loads, completionOrder, response, pagePc, pageReq, pageResult,
    stripPc, stripIn, stripOnce, stripTwice, calls, clock,
    inv, isExporting, running, fs, jobPc, jobLog, snapshots, i18n>>
notI18nVars ==
  <<disk, getPc, loads, completionOrder, response, pagePc, pageReq, pageResult,
    stripPc, stripIn, stripOnce, stripTwice, calls, clock,
    inv, isExporting, running, fs, jobPc, jobLog, snapshots, copy>>

(***************************************************************************)
(* Bounds of the model.                                                    *)
(***************************************************************************)
MaxLen == 4
MaxCalls == 2
MaxTicks == 1
MaxInvocations == 2
MaxRuns == 2
MaxFence == 7
MaxEntity == 3
MaxSections == 3
MaxPending == 2

(***************************************************************************)
(* The parts of the model are separate programs (a route handler, a page,  *)
(* a browser component, a script).  A specification runs one of them and   *)
(* leaves the others switched off: Off(part) holds of every part but the    *)
(* one named.                                                              *)
(***************************************************************************)
Off(part) ==
  /\ IF part = "route" THEN TRUE
     ELSE /\ disk = <<>>
          /\ getPc = "off"
          /\ loads = <<>>
          /\ completionOrder = <<>>
          /\ response = <<>>
          /\ pagePc = "off"
          /\ pageReq = "none"
          /\ pageResult = <<>>
  /\ IF part = "strip" THEN TRUE
     ELSE /\ stripPc = "off"
          /\ stripIn = <<>>
          /\ stripOnce = <<>>
          /\ stripTwice = <<>>
  /\ IF part = "export" THEN TRUE
     ELSE /\ calls = <<>>
          /\ clock = 1
  /\ IF part = "button" THEN TRUE
     ELSE /\ inv = <<>>
          /\ isExporting = <<>>
          /\ running = 0
  /\ IF part = "job" THEN TRUE
     ELSE /\ fs = <<>>
          /\ jobPc = <<>>
          /\ jobLog = <<>>
          /\ snapshots = <<>>
  /\ IF part = "copy" THEN TRUE ELSE copy = <<>>
  /\ IF part = "i18n" THEN TRUE ELSE i18n = <<>>

(***************************************************************************)
(* Characters.                                                             *)
(***************************************************************************)
NL == "\n"

\* The backtick character, which a string literal cannot hold.
BT == "BT"

\* \s of a JavaScript regular expression, restricted to the characters used.
WhiteSpace == {" ", NL, "\t"}

RECURSIVE SeqsUpTo(_, _)
SeqsUpTo(S, n) ==
  IF n = 0 THEN {<<>>}
  ELSE LET shorter == SeqsUpTo(S, n - 1)
       IN shorter \cup {Append(s, c) : s \in {t \in shorter : Len(t) = n - 1}, c \in S}

At(s, i) == IF i >= 1 /\ i <= Len(s) THEN s[i] ELSE "<end>"

Slice(s, i, j) == IF j < i THEN <<>> ELSE SubSeq(s, i, j)

\* Whether pat occurs in s at position i.
OccursAt(s, i, pat) ==
  /\ i >= 1
  /\ i + Len(pat) - 1 <= Len(s)
  /\ \A k \in 1..Len(pat) : s[i + k - 1] = pat[k]

(***************************************************************************)
(* The six substitutions of the plain-text conversion,                     *)
(* String.prototype.replace with a global regular expression: the scan     *)
(* goes left to right, a match found at a position is replaced and the     *)
(* scan resumes behind it, otherwise the character is kept.                *)
(***************************************************************************)

\* The least j >= from with s[j .. j+Len(pat)-1] = pat, where every character
\* skipped on the way is allowed by dotOnly (the "." of (.*?) does not match a
\* line break; [\s\S] matches everything).  0 when there is none.
RECURSIVE LazyFind(_, _, _, _)
LazyFind(s, from, pat, dotOnly) ==
  IF from + Len(pat) - 1 > Len(s) THEN 0
  ELSE IF OccursAt(s, from, pat) THEN from
  ELSE IF dotOnly /\ s[from] = NL THEN 0
  ELSE LazyFind(s, from + 1, pat, dotOnly)

\* What a pattern matches at position i of s: <<length matched, replacement>>,
\* length 0 for no match.
MatchAt(p, s, i) ==
  LET NoMatch == <<0, <<>>>>
      \* Length of the run of "#" starting at j.
      RECURSIVE HashRun(_)
      HashRun(j) == IF At(s, j) = "#" THEN 1 + HashRun(j + 1) ELSE 0
      \* /#{1,6}\s/: the greedy {1,6} backs off from 6, and only a count that
      \* is followed by white space matches.
      MatchHeader ==
        LET ks == {k \in 1..6 : k <= HashRun(i) /\ At(s, i + k) \in WhiteSpace}
        IN IF ks = {} THEN NoMatch
           ELSE <<(CHOOSE x \in ks : \A y \in ks : y <= x) + 1, <<>>>>
      \* /open(.*?)close/, replaced by $1 (keep) or by nothing.
      MatchDelimited(open, close, dotOnly, keep) ==
        IF ~OccursAt(s, i, open) THEN NoMatch
        ELSE LET j == LazyFind(s, i + Len(open), close, dotOnly)
             IN IF j = 0 THEN NoMatch
                ELSE <<j + Len(close) - i,
                       IF keep THEN Slice(s, i + Len(open), j - 1) ELSE <<>>>>
      \* The least j >= from with s[j] = c, 0 when there is none ([^c]+ is
      \* greedy and ends at the first c).
      RECURSIVE FirstChar(_, _)
      FirstChar(from, c) ==
        IF from > Len(s) THEN 0
        ELSE IF s[from] = c THEN from
        ELSE FirstChar(from + 1, c)
      \* /\[([^\]]+)\]\([^)]+\)/, replaced by $1.
      MatchLink ==
        IF At(s, i) # "[" THEN NoMatch
        ELSE LET j == FirstChar(i + 1, "]")
             IN IF j = 0 \/ j < i + 2 \/ At(s, j + 1) # "(" THEN NoMatch
                ELSE LET k == FirstChar(j + 2, ")")
                     IN IF k = 0 \/ k < j + 3 THEN NoMatch
                        ELSE <<k + 1 - i, Slice(s, i + 1, j - 1)>>
  IN CASE p = "header" -> MatchHeader
       [] p = "bold"   -> MatchDelimited(<<"*", "*">>, <<"*", "*">>, TRUE, TRUE)
       [] p = "italic" -> MatchDelimited(<<"*">>, <<"*">>, TRUE, TRUE)
       [] p = "code"   -> MatchDelimited(<<BT>>, <<BT>>, TRUE, TRUE)
       [] p = "fence"  -> MatchDelimited(<<BT, BT, BT>>, <<BT, BT, BT>>, FALSE, FALSE)
       [] p = "link"   -> MatchLink

RECURSIVE ReplaceFrom(_, _, _)
ReplaceFrom(p, s, i) ==
  IF i > Len(s) THEN <<>>
  ELSE LET m == MatchAt(p, s, i)
       IN IF m[1] = 0 THEN <<s[i]>> \o ReplaceFrom(p, s, i + 1)
          ELSE m[2] \o ReplaceFrom(p, s, i + m[1])

\* The substitution chain of exportAsText and exportMultipleAsText.
StripMarkdown(s) ==
  LET ReplaceAll(p, str) == ReplaceFrom(p, str, 1)
  IN ReplaceAll("link",
       ReplaceAll("fence",
         ReplaceAll("code",
           ReplaceAll("italic",
             ReplaceAll("bold",
               ReplaceAll("header", s))))))

(***************************************************************************)
(* ContentStore: lib/api-content.ts.                                       *)
(***************************************************************************)
StripeName   == <<"S", "t", "r", "i", "p", "e">>
SendGridName == <<"S", "e", "n", "d", "G", "r", "i", "d">>

\* apiMetadata; the names of twilio and supabase are not spelled out, no
\* export of the model carries them.
apiMetadata ==
  [id \in {"stripe", "sendgrid", "twilio", "supabase"} |->
     CASE id = "stripe"   -> [name |-> StripeName, description |-> "Payment processing platform"]
       [] id = "sendgrid" -> [name |-> SendGridName, description |-> "Email delivery service"]
       [] id = "twilio"   -> [name |-> <<"T", "w", "i", "l", "i", "o">>,
                              description |-> "SMS & Voice communication"]
       [] id = "supabase" -> [name |-> <<"S", "u", "p", "a", "b", "a", "s", "e">>,
                              description |-> "Backend as a Service"]]

\* Object.keys(apiMetadata), in the insertion order of the keys.
getAvailableApis == <<"stripe", "sendgrid", "twilio", "supabase">>

RecognizedIds == DOMAIN apiMetadata

Lower == <<"a", "b", "c", "d", "e", "f", "g", "h", "i", "j", "k", "l", "m",
           "n", "o", "p", "q", "r", "s", "t", "u", "v", "w", "x", "y", "z">>
Upper == <<"A", "B", "C", "D", "E", "F", "G", "H", "I", "J", "K", "L", "M",
           "N", "O", "P", "Q", "R", "S", "T", "U", "V", "W", "X", "Y", "Z">>

\* String.prototype.toUpperCase and toLowerCase, character by character.
ToUpperCase(s) ==
  [i \in 1..Len(s) |->
     IF \E k \in 1..26 : Lower[k] = s[i]
     THEN Upper[CHOOSE k \in 1..26 : Lower[k] = s[i]] ELSE s[i]]
ToLowerCase(s) ==
  [i \in 1..Len(s) |->
     IF \E k \in 1..26 : Upper[k] = s[i]
     THEN Lower[CHOOSE k \in 1..26 : Upper[k] = s[i]] ELSE s[i]]

DotMd == <<".", "m", "d">>

\* The disks the routes run on: a contents/<id> directory for every
\* recognized id and for openai (a directory of the repository without
\* metadata), each missing, unlistable, or listing some entries.
Disks ==
  LET MailSend  == <<"m", "a", "i", "l", "-", "s", "e", "n", "d">> \o DotMd
      MdAuth    == [filename |-> <<"a", "u", "t", "h">> \o DotMd, readable |-> TRUE,
                    content |-> <<"#", " ", "a">>]
      MdMailSend == [filename |-> MailSend, readable |-> TRUE, content |-> <<"*", "a", "*">>]
      MdLocked  == [filename |-> MailSend, readable |-> FALSE, content |-> <<>>]
      TxtReadme == [filename |-> <<"r", "e", "a", "d", "m", "e", ".", "t", "x", "t">>,
                    readable |-> TRUE, content |-> <<"a">>]
      DirMissing    == [exists |-> FALSE, listable |-> FALSE, entries |-> <<>>]
      DirUnlistable == [exists |-> TRUE, listable |-> FALSE, entries |-> <<>>]
      Dir(entries)  == [exists |-> TRUE, listable |-> TRUE, entries |-> entries]
      DirShapes ==
        {DirMissing, DirUnlistable, Dir(<<>>), Dir(<<TxtReadme>>), Dir(<<MdAuth>>),
         Dir(<<MdAuth, MdMailSend>>), Dir(<<MdAuth, MdLocked>>)}
  IN {d \in [RecognizedIds \cup {"openai"} -> DirShapes] :
        d["openai"] \in {DirMissing, Dir(<<MdAuth>>)}}

\* filename.replace('.md', '').replace(/-/g, ' ').split(' ').map(capitalize).join(' ')
TitleOf(filename) ==
  LET \* String.prototype.replace with a string pattern: the first occurrence only.
      RemoveFirst(s, pat) ==
        LET j == LazyFind(s, 1, pat, FALSE)
        IN IF j = 0 THEN s ELSE Slice(s, 1, j - 1) \o Slice(s, j + Len(pat), Len(s))
      \* replace(/-/g, ' ')
      HyphensToSpaces(s) == [i \in 1..Len(s) |-> IF s[i] = "-" THEN " " ELSE s[i]]
      \* word.charAt(0).toUpperCase() + word.slice(1), for every word.
      CapitalizeWords(s) ==
        [i \in 1..Len(s) |->
           IF i = 1 \/ s[i - 1] = " " THEN ToUpperCase(<<s[i]>>)[1] ELSE s[i]]
  IN CapitalizeWords(HyphensToSpaces(RemoveFirst(filename, DotMd)))

Null == [kind |-> "null"]
Thrown == [kind |-> "throw"]

\* getApiContent: null for a missing directory, a rejection when listing the
\* directory or reading one of its .md files throws, the unit otherwise.
getApiContent(d, apiId) ==
  LET \* filename.endsWith('.md')
      IsMarkdown(entry) ==
        OccursAt(entry.filename, Len(entry.filename) - Len(DotMd) + 1, DotMd)
      FileOf(entry) ==
        [filename |-> entry.filename, title |-> TitleOf(entry.filename),
         content |-> entry.content]
      \* An id as the characters of a name (apiMetadata[apiId]?.name || apiId).
      IdChars == IF apiId = "openai" THEN <<"o", "p", "e", "n", "a", "i">> ELSE <<apiId>>
  IN IF ~(apiId \in DOMAIN d /\ d[apiId].exists) THEN Null
     ELSE IF ~d[apiId].listable THEN Thrown
     ELSE LET md == SelectSeq(d[apiId].entries, IsMarkdown)
          IN IF \E i \in 1..Len(md) : ~md[i].readable THEN Thrown
             ELSE [kind |-> "content",
                   id |-> apiId,
                   name |-> IF apiId \in DOMAIN apiMetadata
                            THEN apiMetadata[apiId].name ELSE IdChars,
                   files |-> [i \in 1..Len(md) |-> FileOf(md[i])]]

(***************************************************************************)
(* GET /api/export (app/api/export/route.ts).                              *)
(***************************************************************************)
\* The callback of apiIds.map for one id: its promise is rejected when
\* getApiContent throws, and fulfilled with null or with {id, name, content}.
MapCallback(d, apiId) ==
  LET content == getApiContent(d, apiId)
  IN CASE content.kind = "throw" -> [state |-> "rejected"]
       [] content.kind = "null"  -> [state |-> "fulfilled", value |-> Null]
       [] OTHER -> [state |-> "fulfilled",
                    value |-> [kind |-> "api", id |-> apiId,
                               name |-> content.name, content |-> content]]

\* The mutant of Promise.all: the values in the order the promises settled.
PromiseAllValues_completionOrder(settled, order) ==
  [k \in 1..Len(order) |-> settled[order[k]].value]

\* Promise.all: the values of the promises in the order of the input array.
PromiseAllValues(settled, order) ==
  [i \in 1..Len(settled) |-> settled[i].value]

RouteInit ==
  /\ Off("route")
  /\ disk \in Disks
  /\ getPc = "idle"
  /\ loads = <<>>
  /\ completionOrder = <<>>
  /\ response = Null
  /\ pagePc = "idle"
  /\ pageReq = "nosuch"
  /\ pageResult = Null

\* const apiIds = getAvailableApis(); apiIds.map(async ...) starts every load.
GetStart ==
  /\ getPc = "idle"
  /\ pagePc = "idle"
  /\ getPc' = "loading"
  /\ loads' = [i \in 1..Len(getAvailableApis) |-> [state |-> "pending"]]
  /\ UNCHANGED <<disk, completionOrder, response, pagePc, pageReq, pageResult, notRouteVars>>

\* One callback settles; the callbacks settle in any order, also after
\* Promise.all has rejected.
LoadSettle(i) ==
  /\ getPc \in {"loading", "responded"}
  /\ loads[i].state = "pending"
  /\ loads' = [loads EXCEPT ![i] = MapCallback(disk, getAvailableApis[i])]
  /\ completionOrder' = Append(completionOrder, i)
  /\ UNCHANGED <<disk, getPc, response, pagePc, pageReq, pageResult, notRouteVars>>

\* Every promise is fulfilled: filter the nulls and answer { apis: validApis }.
GetRespondOk ==
  /\ getPc = "loading"
  /\ \A i \in 1..Len(getAvailableApis) : loads[i].state = "fulfilled"
  /\ response' = [kind |-> "json", status |-> 200,
                  apis |-> SelectSeq(PromiseAllValues(loads, completionOrder),
                                    LAMBDA api : api.kind # "null")]
  /\ getPc' = "responded"
  /\ UNCHANGED <<disk, loads, completionOrder, pagePc, pageReq, pageResult, notRouteVars>>

\* A promise is rejected: Promise.all rejects, the catch answers status 500.
GetRespondError ==
  /\ getPc = "loading"
  /\ \E i \in 1..Len(getAvailableApis) : loads[i].state = "rejected"
  /\ response' = [kind |-> "json", status |-> 500,
                  error |-> "Failed to fetch API content"]
  /\ getPc' = "responded"
  /\ UNCHANGED <<disk, loads, completionOrder, pagePc, pageReq, pageResult, notRouteVars>>

(***************************************************************************)
(* The documentation page (app/api/[apiId]/page.tsx and page-content.tsx). *)
(***************************************************************************)
\* ApiContentPage: one file renders alone, otherwise Tabs reads
\* files[0].filename, which throws on an empty list.
ApiContentPage(apiContent) ==
  IF Len(apiContent.files) = 1
  THEN [kind |-> "rendered", layout |-> "single", unit |-> apiContent]
  ELSE IF apiContent.files = <<>>
  THEN [kind |-> "error", unit |-> apiContent]
  ELSE [kind |-> "rendered", layout |-> "tabs", unit |-> apiContent,
        defaultValue |-> apiContent.files[1].filename]

ApiDocumentationPage(d, apiId) ==
  LET apiContent == getApiContent(d, apiId)
  IN CASE apiContent.kind = "throw" -> [kind |-> "error", unit |-> Null]
       [] apiContent.kind = "null"  -> [kind |-> "notFound"]
       [] OTHER -> ApiContentPage(apiContent)

PageRequest(apiId) ==
  /\ pagePc = "idle"
  /\ getPc = "idle"
  /\ pageReq' = apiId
  /\ pageResult' = ApiDocumentationPage(disk, apiId)
  /\ pagePc' = "done"
  /\ UNCHANGED <<disk, getPc, loads, completionOrder, response, notRouteVars>>

RouteNext ==
  \/ GetStart
  \/ \E i \in 1..Len(getAvailableApis) : LoadSettle(i)
  \/ GetRespondOk
  \/ GetRespondError
  \/ \E apiId \in (RecognizedIds \cup {"openai", "nosuch"}) : PageRequest(apiId)

(***************************************************************************)
(* DocumentExporter: the export half of lib/api-content.ts                 *)
(* (lib/export-utils in the imports of the components).                    *)
(*                                                                         *)
(* content is a bare string, [kind |-> "string", text |-> characters], or  *)
(* structured, [kind |-> "object", files |-> <<[title, content], ...>>].   *)
(* A clock value is what one new Date() returns.                           *)
(***************************************************************************)
\* new Date().toISOString()
ToISOString(t) == <<t.date, "T", t.time, "Z">>

\* new Date().toISOString().split('T')[0]
IsoDatePart(t) == <<ToISOString(t)[1]>>

\* new Date().toLocaleDateString()
ToLocaleDateString(t) == <<t.locale>>

\* c.repeat(n), kept as one run-length token.
Repeat(c, n) == <<[ch |-> c, times |-> n]>>

RuleWidth == 50
TocRuleWidth == 30

RECURSIVE Flatten(_)
Flatten(seqs) == IF seqs = <<>> THEN <<>> ELSE seqs[1] \o Flatten(Tail(seqs))

\* The mutant of escapeXML: the same replacements with "&" last, so that the
\* ampersands of the entities written before it are escaped again.
escapeXML_ampersandLast(str) ==
  LET ReplaceChar(s, c, entity) ==
        Flatten([i \in 1..Len(s) |-> IF s[i] = c THEN entity ELSE <<s[i]>>])
  IN ReplaceChar(
       ReplaceChar(
         ReplaceChar(
           ReplaceChar(
             ReplaceChar(str, "<", <<"&", "l", "t", ";">>),
             ">", <<"&", "g", "t", ";">>),
           "\"", <<"&", "q", "u", "o", "t", ";">>),
         "'", <<"&", "a", "p", "o", "s", ";">>),
       "&", <<"&", "a", "m", "p", ";">>)

\* escapeXML: five global replacements of one character by an entity, in the
\* order of the source, "&" first.
escapeXML(str) ==
  LET ReplaceChar(s, c, entity) ==
        Flatten([i \in 1..Len(s) |-> IF s[i] = c THEN entity ELSE <<s[i]>>])
  IN ReplaceChar(
       ReplaceChar(
         ReplaceChar(
           ReplaceChar(
             ReplaceChar(str, "&", <<"&", "a", "m", "p", ";">>),
             "<", <<"&", "l", "t", ";">>),
           ">", <<"&", "g", "t", ";">>),
         "\"", <<"&", "q", "u", "o", "t", ";">>),
       "'", <<"&", "a", "p", "o", "s", ";">>)

(***************************************************************************)
(* JSON.stringify(data, null, 2) over strings, numbers, arrays and objects *)
(* whose keys keep their insertion order.                                  *)
(***************************************************************************)
JStr(chars) == [t |-> "str", chars |-> chars]
JNum(n)     == [t |-> "num", n |-> n]
\* The mutant of an array value: `items.length && items`, which is 0 for an
\* empty list.
JArr_zeroWhenEmpty(items) ==
  IF items = <<>> THEN [t |-> "num", n |-> 0] ELSE [t |-> "arr", items |-> items]
JArr(items) == [t |-> "arr", items |-> items]
JObj(pairs) == [t |-> "obj", pairs |-> pairs]

\* The mutant of the string serialization: the characters between the
\* quotes as they are.
JsonQuote_unescaped(chars) == <<"\"">> \o chars \o <<"\"">>

\* A string with the escapes JSON.stringify applies to the characters used.
JsonQuote(chars) ==
  LET JsonEscapeChar(c) ==
        CASE c = "\"" -> <<"\\", "\"">>
          [] c = "\\" -> <<"\\", "\\">>
          [] c = NL   -> <<"\\", "n">>
          [] c = "\t" -> <<"\\", "t">>
          [] OTHER    -> <<c>>
  IN <<"\"">> \o Flatten([i \in 1..Len(chars) |-> JsonEscapeChar(chars[i])]) \o <<"\"">>

Indent(n) == [i \in 1..n |-> "  "]

RECURSIVE Stringify(_, _)
RECURSIVE StringifyItems(_, _, _)
StringifyItems(v, k, depth) ==
  LET n == IF v.t = "arr" THEN Len(v.items) ELSE Len(v.pairs)
      one == IF v.t = "arr" THEN Stringify(v.items[k], depth)
             ELSE JsonQuote(v.pairs[k][1]) \o <<":", " ">> \o Stringify(v.pairs[k][2], depth)
  IN IF k > n THEN <<>>
     ELSE <<NL>> \o Indent(depth) \o one
          \o (IF k < n THEN <<",">> ELSE <<>>)
          \o StringifyItems(v, k + 1, depth)
Stringify(v, depth) ==
  CASE v.t = "str" -> JsonQuote(v.chars)
    [] v.t = "num" -> <<v.n>>
    [] v.t = "arr" ->
         IF v.items = <<>> THEN <<"[", "]">>
         ELSE <<"[">> \o StringifyItems(v, 1, depth + 1) \o <<NL>> \o Indent(depth) \o <<"]">>
    [] v.t = "obj" ->
         IF v.pairs = <<>> THEN <<"{", "}">>
         ELSE <<"{">> \o StringifyItems(v, 1, depth + 1) \o <<NL>> \o Indent(depth) \o <<"}">>

\* JSON.parse of a text JSON.stringify(data, null, 2) wrote: the value, as
\* records of the shapes of JStr, JNum, JArr and JObj.  A text that is cut short parses to what was
\* read up to its end.
JsonParse(text) ==
  LET Str(chars) == [t |-> "str", chars |-> chars]
      Num(n)     == [t |-> "num", n |-> n]
      Arr(items) == [t |-> "arr", items |-> items]
      Obj(pairs) == [t |-> "obj", pairs |-> pairs]
      Is(i, s) == i <= Len(text) /\ ToString(text[i]) = ToString(s)
      RECURSIVE Skip(_)
      Skip(i) == IF Is(i, NL) \/ Is(i, "  ") \/ Is(i, " ") THEN Skip(i + 1) ELSE i
      \* The characters of a string from position i, after its opening quote.
      RECURSIVE Chars(_)
      Chars(i) ==
        IF i > Len(text) THEN [v |-> <<>>, next |-> i]
        ELSE IF Is(i, "\"") THEN [v |-> <<>>, next |-> i + 1]
        ELSE IF Is(i, "\\") /\ i < Len(text)
        THEN LET c == text[i + 1]
                 r == Chars(i + 2)
             IN [v |-> <<CASE c = "n" -> NL [] c = "t" -> "\t" [] OTHER -> c>> \o r.v,
                 next |-> r.next]
        ELSE LET r == Chars(i + 1) IN [v |-> <<text[i]>> \o r.v, next |-> r.next]
      RECURSIVE Value(_)
      RECURSIVE Items(_)
      RECURSIVE Pairs(_)
      Value(i) ==
        IF i > Len(text) THEN [v |-> Str(<<>>), next |-> i]
        ELSE IF Is(i, "\"") THEN LET r == Chars(i + 1) IN [v |-> Str(r.v), next |-> r.next]
        ELSE IF Is(i, "[")
        THEN IF Is(Skip(i + 1), "]") THEN [v |-> Arr(<<>>), next |-> Skip(i + 1) + 1]
             ELSE LET r == Items(Skip(i + 1)) IN [v |-> Arr(r.v), next |-> r.next]
        ELSE IF Is(i, "{")
        THEN IF Is(Skip(i + 1), "}") THEN [v |-> Obj(<<>>), next |-> Skip(i + 1) + 1]
             ELSE LET r == Pairs(Skip(i + 1)) IN [v |-> Obj(r.v), next |-> r.next]
        ELSE [v |-> Num(text[i]), next |-> i + 1]
      Items(i) ==
        LET r == Value(i)
            j == Skip(r.next)
        IN IF Is(j, ",")
           THEN LET rest == Items(Skip(j + 1))
                IN [v |-> <<r.v>> \o rest.v, next |-> rest.next]
           ELSE [v |-> <<r.v>>, next |-> j + 1]
      Pairs(i) ==
        LET key == Chars(i + 1)
            r == Value(Skip(Skip(key.next) + 1))
            j == Skip(r.next)
        IN IF Is(j, ",")
           THEN LET rest == Pairs(Skip(j + 1))
                IN [v |-> << <<key.v, r.v>> >> \o rest.v, next |-> rest.next]
           ELSE [v |-> << <<key.v, r.v>> >>, next |-> j + 1]
  IN Value(Skip(1)).v

\* The content as the JSON value it is.
ContentToJson(content) ==
  IF content.kind = "string" THEN JStr(content.text)
  ELSE JObj(<<<< <<"files">>,
                JArr([i \in 1..Len(content.files) |->
                        JObj(<< <<<<"title">>, JStr(content.files[i].title)>>,
                                <<<<"content">>, JStr(content.files[i].content)>> >>)])>>>>)

MetadataPairs ==
  << <<<<"version">>, JStr(<<"1.0">>)>>,
     <<<<"url">>, JStr(<<"https://api-context-hub.vercel.app">>)>>,
     <<<<"purpose">>, JStr(<<"AI Development Tool Documentation">>)>> >>

Blob(type, text) == [kind |-> "blob", type |-> type, text |-> text]

(***************************************************************************)
(* Single-unit export.  A serializer appends to its text in three phases,  *)
(* a metadata part, a heading part and a body part; the operator of a      *)
(* serializer gives the text a phase appends, t being the clock value the  *)
(* phase reads.                                                            *)
(***************************************************************************)
exportAsJSON(apiName, content, includeMetadata, phase, t) ==
  LET data ==
        JObj(<< <<<<"api">>, JStr(apiName)>>,
                <<<<"exportDate">>, JStr(ToISOString(t))>>,
                <<<<"source">>, JStr(<<"API Context Hub">>)>> >>
             \o (IF includeMetadata THEN << <<<<"metadata">>, JObj(MetadataPairs)>> >> ELSE <<>>)
             \o << <<<<"documentation">>,
                     IF content.kind = "string"
                     THEN JObj(<< <<<<"content">>, JStr(content.text)>> >>)
                     ELSE ContentToJson(content)>> >>)
  IN IF phase = "body" THEN Stringify(data, 0) ELSE <<>>

\* The mutant of exportAsMarkdown: the rule is written before every section,
\* the first included.
exportAsMarkdown_ruleBeforeEach(apiName, content, includeMetadata, phase, t) ==
  LET section(file, index) ==
        (IF index >= 0 THEN <<NL, NL, "---", NL, NL>> ELSE <<>>)
        \o <<"## ">> \o file.title \o <<NL, NL>> \o file.content
  IN CASE phase = "meta" ->
            IF includeMetadata
            THEN <<"---", NL, "api: ">> \o apiName \o <<NL, "exportDate: ">> \o ToISOString(t)
                 \o <<NL, "source: API Context Hub", NL,
                      "purpose: AI Development Tool Documentation", NL, "---", NL, NL>>
            ELSE <<>>
       [] phase = "head" ->
            <<"# ">> \o apiName \o <<" API Documentation", NL, NL,
              "> Exported from API Context Hub on ">> \o ToLocaleDateString(t) \o <<NL, NL>>
       [] phase = "body" ->
            IF content.kind = "string" THEN content.text
            ELSE Flatten([i \in 1..Len(content.files) |-> section(content.files[i], i - 1)])

exportAsMarkdown(apiName, content, includeMetadata, phase, t) ==
  LET section(file, index) ==
        (IF index > 0 THEN <<NL, NL, "---", NL, NL>> ELSE <<>>)
        \o <<"## ">> \o file.title \o <<NL, NL>> \o file.content
  IN CASE phase = "meta" ->
            IF includeMetadata
            THEN <<"---", NL, "api: ">> \o apiName \o <<NL, "exportDate: ">> \o ToISOString(t)
                 \o <<NL, "source: API Context Hub", NL,
                      "purpose: AI Development Tool Documentation", NL, "---", NL, NL>>
            ELSE <<>>
       [] phase = "head" ->
            <<"# ">> \o apiName \o <<" API Documentation", NL, NL,
              "> Exported from API Context Hub on ">> \o ToLocaleDateString(t) \o <<NL, NL>>
       [] phase = "body" ->
            IF content.kind = "string" THEN content.text
            ELSE Flatten([i \in 1..Len(content.files) |-> section(content.files[i], i - 1)])

exportAsText(apiName, content, includeMetadata, phase, t) ==
  LET section(file, index) ==
        (IF index > 0 THEN <<NL>> \o Repeat("-", RuleWidth) \o <<NL, NL>> ELSE <<>>)
        \o ToUpperCase(file.title) \o <<NL>>
        \o Repeat("-", Len(file.title)) \o <<NL, NL>>
        \o StripMarkdown(file.content)
  IN CASE phase = "meta" ->
            IF includeMetadata
            THEN <<"API: ">> \o apiName \o <<NL, "Export Date: ">> \o ToISOString(t)
                 \o <<NL, "Source: API Context Hub", NL,
                      "Purpose: AI Development Tool Documentation", NL>>
                 \o Repeat("=", RuleWidth) \o <<NL, NL>>
            ELSE <<>>
       [] phase = "head" ->
            apiName \o <<" API DOCUMENTATION", NL>> \o Repeat("=", RuleWidth) \o <<NL, NL>>
       [] phase = "body" ->
            IF content.kind = "string" THEN StripMarkdown(content.text)
            ELSE Flatten([i \in 1..Len(content.files) |-> section(content.files[i], i - 1)])

\* The <section> elements of a content; pad is their indentation.  The data
\* goes into a CDATA section as it is, a title is escaped.
XmlSections(pad, content) ==
  LET section(titled, title, data) ==
        <<pad, "<section>", NL>>
        \o (IF titled THEN <<pad, "  ", "<title>">> \o escapeXML(title) \o <<"</title>", NL>>
            ELSE <<>>)
        \o <<pad, "  ", "<data>", "<![CDATA[">> \o data \o <<"]]>", "</data>", NL>>
        \o <<pad, "</section>", NL>>
  IN IF content.kind = "string" THEN section(FALSE, <<>>, content.text)
     ELSE Flatten([i \in 1..Len(content.files) |->
                     section(TRUE, content.files[i].title, content.files[i].content)])

exportAsXML(apiName, content, includeMetadata, phase, t) ==
  CASE phase = "meta" ->
         <<"<?xml version=\"1.0\" encoding=\"UTF-8\"?>", NL, "<apiDocumentation>", NL>>
         \o (IF includeMetadata
             THEN <<"  ", "<metadata>", NL, "    ", "<api>">> \o escapeXML(apiName)
                  \o <<"</api>", NL, "    ", "<exportDate>">> \o ToISOString(t)
                  \o <<"</exportDate>", NL,
                       "    ", "<source>", "API Context Hub", "</source>", NL,
                       "    ", "<purpose>", "AI Development Tool Documentation", "</purpose>", NL,
                       "  ", "</metadata>", NL>>
             ELSE <<>>)
    [] phase = "head" -> <<>>
    [] phase = "body" ->
         <<"  ", "<content>", NL>> \o XmlSections("    ", content)
         \o <<"  ", "</content>", NL, "</apiDocumentation>">>

(***************************************************************************)
(* Bulk export.                                                            *)
(***************************************************************************)
\* The mutant of exportMultipleAsJSON: a bare string is wrapped as
\* {content: ...}, as the single-unit export does.
exportMultipleAsJSON_contentWrapped(apis, includeMetadata, phase, t) ==
  LET data ==
        JObj(<< <<<<"exportDate">>, JStr(ToISOString(t))>>,
                <<<<"source">>, JStr(<<"API Context Hub">>)>> >>
             \o (IF includeMetadata
                 THEN << <<<<"metadata">>,
                          JObj(MetadataPairs \o << <<<<"totalApis">>, JNum(Len(apis))>> >>)>> >>
                 ELSE <<>>)
             \o << <<<<"apis">>,
                     JArr([i \in 1..Len(apis) |->
                             JObj(<< <<<<"name">>, JStr(apis[i].name)>>,
                                     <<<<"documentation">>,
                                       IF apis[i].content.kind = "string"
                                       THEN JObj(<< <<<<"content">>,
                                                      JStr(apis[i].content.text)>> >>)
                                       ELSE ContentToJson(apis[i].content)>> >>)])>> >>)
  IN IF phase = "body" THEN Stringify(data, 0) ELSE <<>>

exportMultipleAsJSON(apis, includeMetadata, phase, t) ==
  LET data ==
        JObj(<< <<<<"exportDate">>, JStr(ToISOString(t))>>,
                <<<<"source">>, JStr(<<"API Context Hub">>)>> >>
             \o (IF includeMetadata
                 THEN << <<<<"metadata">>,
                          JObj(MetadataPairs \o << <<<<"totalApis">>, JNum(Len(apis))>> >>)>> >>
                 ELSE <<>>)
             \o << <<<<"apis">>,
                     JArr([i \in 1..Len(apis) |->
                             JObj(<< <<<<"name">>, JStr(apis[i].name)>>,
                                     <<<<"documentation">>,
                                       ContentToJson(apis[i].content)>> >>)])>> >>)
  IN IF phase = "body" THEN Stringify(data, 0) ELSE <<>>

\* The mutant of the anchor: replace(/\s/g, '-'), a hyphen for every
\* white-space character.
Anchor_hyphenPerCharacter(name) ==
  LET low == ToLowerCase(name)
  IN [i \in 1..Len(low) |-> IF low[i] \in WhiteSpace THEN "-" ELSE low[i]]

\* name.toLowerCase().replace(/\s+/g, '-'): every white-space run becomes one hyphen.
Anchor(name) ==
  LET low == ToLowerCase(name)
  IN Flatten([i \in 1..Len(low) |->
                IF low[i] \notin WhiteSpace THEN <<low[i]>>
                ELSE IF i > 1 /\ low[i - 1] \in WhiteSpace THEN <<>>
                ELSE <<"-">>])

exportMultipleAsMarkdown(apis, includeMetadata, phase, t) ==
  LET tocEntry(api, index) ==
        <<index + 1, ". ", "[">> \o api.name \o <<" API", "]", "(", "#">>
        \o Anchor(api.name) \o <<"-api", ")", NL>>
      fileSection(file, fileIndex) ==
        (IF fileIndex > 0 THEN <<NL, NL>> ELSE <<>>)
        \o <<"## ">> \o file.title \o <<NL, NL>> \o file.content
      apiSection(api, index) ==
        (IF index > 0 THEN <<NL, NL, "---", NL, NL>> ELSE <<>>)
        \o <<"# ">> \o api.name \o <<" API", NL, NL>>
        \o (IF api.content.kind = "string" THEN api.content.text
            ELSE Flatten([i \in 1..Len(api.content.files) |->
                            fileSection(api.content.files[i], i - 1)]))
  IN CASE phase = "meta" ->
            IF includeMetadata
            THEN <<"---", NL, "exportDate: ">> \o ToISOString(t)
                 \o <<NL, "source: API Context Hub", NL,
                      "purpose: AI Development Tool Documentation", NL,
                      "totalApis: ", Len(apis), NL, "---", NL, NL>>
            ELSE <<>>
       [] phase = "head" ->
            <<"# API Documentation Collection", NL, NL,
              "> Exported from API Context Hub on ">> \o ToLocaleDateString(t) \o <<NL, NL,
              "## Table of Contents", NL, NL>>
            \o Flatten([i \in 1..Len(apis) |-> tocEntry(apis[i], i - 1)])
            \o <<NL, "---", NL, NL>>
       [] phase = "body" ->
            Flatten([i \in 1..Len(apis) |-> apiSection(apis[i], i - 1)])

exportMultipleAsText(apis, includeMetadata, phase, t) ==
  LET \* files.map(f => f.content).join('\n\n')
      plain(content) ==
        IF content.kind = "string" THEN content.text
        ELSE Flatten([i \in 1..Len(content.files) |->
                        (IF i > 1 THEN <<NL, NL>> ELSE <<>>) \o content.files[i].content])
      apiSection(api, index) ==
        (IF index > 0 THEN <<NL, NL>> \o Repeat("=", RuleWidth) \o <<NL, NL>> ELSE <<>>)
        \o ToUpperCase(api.name) \o <<" API", NL>>
        \o Repeat("=", Len(api.name) + 4) \o <<NL, NL>>
        \o StripMarkdown(plain(api.content))
  IN CASE phase = "meta" ->
            IF includeMetadata
            THEN <<"Export Date: ">> \o ToISOString(t)
                 \o <<NL, "Source: API Context Hub", NL,
                      "Purpose: AI Development Tool Documentation", NL,
                      "Total APIs: ", Len(apis), NL>>
                 \o Repeat("=", RuleWidth) \o <<NL, NL>>
            ELSE <<>>
       [] phase = "head" ->
            <<"API DOCUMENTATION COLLECTION", NL>> \o Repeat("=", RuleWidth) \o <<NL, NL,
              "TABLE OF CONTENTS", NL>> \o Repeat("-", TocRuleWidth) \o <<NL>>
            \o Flatten([i \in 1..Len(apis) |-> <<i, ". ">> \o apis[i].name \o <<" API", NL>>])
            \o <<NL>> \o Repeat("=", RuleWidth) \o <<NL, NL>>
       [] phase = "body" ->
            Flatten([i \in 1..Len(apis) |-> apiSection(apis[i], i - 1)])

\* The mutant of exportMultipleAsXML: the title of a section is written as it
\* is, without escapeXML.
exportMultipleAsXML_titleUnescaped(apis, includeMetadata, phase, t) ==
  LET section(titled, title, data) ==
        <<"        ", "<section>", NL>>
        \o (IF titled
            THEN <<"        ", "  ", "<title>">> \o title \o <<"</title>", NL>>
            ELSE <<>>)
        \o <<"        ", "  ", "<data>", "<![CDATA[">> \o data \o <<"]]>", "</data>", NL>>
        \o <<"        ", "</section>", NL>>
      apiElement(api) ==
        <<"    ", "<api>", NL, "      ", "<name>">> \o escapeXML(api.name) \o <<"</name>", NL,
          "      ", "<documentation>", NL>>
        \o (IF api.content.kind = "string" THEN section(FALSE, <<>>, api.content.text)
            ELSE Flatten([i \in 1..Len(api.content.files) |->
                            section(TRUE, api.content.files[i].title,
                                    api.content.files[i].content)]))
        \o <<"      ", "</documentation>", NL, "    ", "</api>", NL>>
  IN CASE phase = "meta" ->
            <<"<?xml version=\"1.0\" encoding=\"UTF-8\"?>", NL,
              "<apiDocumentationCollection>", NL>>
            \o (IF includeMetadata
                THEN <<"  ", "<metadata>", NL,
                       "    ", "<exportDate>">> \o ToISOString(t) \o <<"</exportDate>", NL,
                       "    ", "<source>", "API Context Hub", "</source>", NL,
                       "    ", "<purpose>", "AI Development Tool Documentation", "</purpose>", NL,
                       "    ", "<totalApis>", Len(apis), "</totalApis>", NL,
                       "  ", "</metadata>", NL>>
                ELSE <<>>)
       [] phase = "head" -> <<>>
       [] phase = "body" ->
            <<"  ", "<apis>", NL>>
            \o Flatten([i \in 1..Len(apis) |-> apiElement(apis[i])])
            \o <<"  ", "</apis>", NL, "</apiDocumentationCollection>">>

\* The sections of an API are written by the loop of the function itself
\* (lines 401-411), a copy of the loop of exportAsXML with a deeper indentation.
exportMultipleAsXML(apis, includeMetadata, phase, t) ==
  LET section(titled, title, data) ==
        <<"        ", "<section>", NL>>
        \o (IF titled
            THEN <<"        ", "  ", "<title>">> \o escapeXML(title) \o <<"</title>", NL>>
            ELSE <<>>)
        \o <<"        ", "  ", "<data>", "<![CDATA[">> \o data \o <<"]]>", "</data>", NL>>
        \o <<"        ", "</section>", NL>>
      apiElement(api) ==
        <<"    ", "<api>", NL, "      ", "<name>">> \o escapeXML(api.name) \o <<"</name>", NL,
          "      ", "<documentation>", NL>>
        \o (IF api.content.kind = "string" THEN section(FALSE, <<>>, api.content.text)
            ELSE Flatten([i \in 1..Len(api.content.files) |->
                            section(TRUE, api.content.files[i].title,
                                    api.content.files[i].content)]))
        \o <<"      ", "</documentation>", NL, "    ", "</api>", NL>>
  IN CASE phase = "meta" ->
            <<"<?xml version=\"1.0\" encoding=\"UTF-8\"?>", NL,
              "<apiDocumentationCollection>", NL>>
            \o (IF includeMetadata
                THEN <<"  ", "<metadata>", NL,
                       "    ", "<exportDate>">> \o ToISOString(t) \o <<"</exportDate>", NL,
                       "    ", "<source>", "API Context Hub", "</source>", NL,
                       "    ", "<purpose>", "AI Development Tool Documentation", "</purpose>", NL,
                       "    ", "<totalApis>", Len(apis), "</totalApis>", NL,
                       "  ", "</metadata>", NL>>
                ELSE <<>>)
       [] phase = "head" -> <<>>
       [] phase = "body" ->
            <<"  ", "<apis>", NL>>
            \o Flatten([i \in 1..Len(apis) |-> apiElement(apis[i])])
            \o <<"  ", "</apis>", NL, "</apiDocumentationCollection>">>

(***************************************************************************)
(* exportDocument and exportMultipleApis.                                  *)
(***************************************************************************)
SupportedFormats == {"json", "markdown", "text", "xml"}

\* The mutant of the default: an omitted includeMetadata reads as undefined,
\* which is falsy.
IncludeMetadata_omittedIsFalsy(options) ==
  IF "includeMetadata" \in DOMAIN options THEN options.includeMetadata ELSE FALSE

\* includeMetadata = true when the option is omitted.
IncludeMetadata(options) ==
  IF "includeMetadata" \in DOMAIN options THEN options.includeMetadata ELSE TRUE

\* The mutant of the switch: an unknown format falls back to plain text, as
\* getFileExtension does.
SerializerOf_defaultText(format) ==
  IF format \in SupportedFormats THEN format ELSE "text"

\* switch (format): the serializer a format selects, "unsupported" for the
\* default case.
SerializerOf(format) ==
  IF format \in SupportedFormats THEN format ELSE "unsupported"

\* The mutant of the Blob types: XML declared as text/xml.
MimeType_textXml(serializer) ==
  CASE serializer = "json"     -> "application/json"
    [] serializer = "markdown" -> "text/markdown"
    [] serializer = "text"     -> "text/plain"
    [] serializer = "xml"      -> "text/xml"

\* The type of the Blob a serializer returns.
MimeType(serializer) ==
  CASE serializer = "json"     -> "application/json"
    [] serializer = "markdown" -> "text/markdown"
    [] serializer = "text"     -> "text/plain"
    [] serializer = "xml"      -> "application/xml"

\* throw new Error(`Unsupported format: ${format}`)
UnsupportedFormat(format) ==
  [kind |-> "throw", message |-> <<"Unsupported format: ", format>>]

Phases == <<"meta", "head", "body">>

\* Whether a phase of the selected serializer reads the clock (new Date()).
ReadsClock(options, phase) ==
  LET f == SerializerOf(options.format)
  IN CASE f = "json"     -> phase = "body"
       [] f = "markdown" -> (phase = "meta" /\ IncludeMetadata(options)) \/ phase = "head"
       [] OTHER          -> phase = "meta" /\ IncludeMetadata(options)

\* The text a phase of the selected serializer appends.
Part(options, phase, t) ==
  LET f == SerializerOf(options.format)
      incl == IncludeMetadata(options)
  IN IF options.kind = "single"
     THEN CASE f = "json" ->
                 exportAsJSON(options.apiName, options.content, incl, phase, t)
            [] f = "markdown" ->
                 exportAsMarkdown(options.apiName, options.content, incl, phase, t)
            [] f = "text" ->
                 exportAsText(options.apiName, options.content, incl, phase, t)
            [] f = "xml" ->
                 exportAsXML(options.apiName, options.content, incl, phase, t)
     ELSE CASE f = "json"     -> exportMultipleAsJSON(options.apis, incl, phase, t)
            [] f = "markdown" -> exportMultipleAsMarkdown(options.apis, incl, phase, t)
            [] f = "text"     -> exportMultipleAsText(options.apis, incl, phase, t)
            [] f = "xml"      -> exportMultipleAsXML(options.apis, incl, phase, t)

\* The text of a call run alone: clk holds the clock values it reads, in order.
ExportText(options, clk) ==
  LET ReadIndex(phase) ==
        Cardinality({k \in 1..Len(Phases) :
                       /\ ReadsClock(options, Phases[k])
                       /\ \E j \in k..Len(Phases) : Phases[j] = phase})
  IN Flatten([k \in 1..Len(Phases) |->
                Part(options, Phases[k],
                     IF ReadsClock(options, Phases[k])
                     THEN clk[ReadIndex(Phases[k])] ELSE <<>>)])

Export(options, clk) ==
  IF SerializerOf(options.format) = "unsupported"
  THEN UnsupportedFormat(options.format)
  ELSE Blob(MimeType(SerializerOf(options.format)), ExportText(options, clk))

exportDocument(options, clk) == Export([options EXCEPT !.kind = "single"], clk)
exportMultipleApis(options, clk) == Export([options EXCEPT !.kind = "bulk"], clk)

(***************************************************************************)
(* Export calls in flight.  A call runs its serializer part by part on a   *)
(* text buffer of its own (let text = ''), and the parts of different      *)
(* calls interleave in any order; the clock may advance between parts.     *)
(***************************************************************************)
ClockValues ==
  <<[date |-> "2025-06-19", time |-> "23:59:59.999", locale |-> "6/19/2025"],
    [date |-> "2025-06-20", time |-> "00:00:00.000", locale |-> "6/20/2025"],
    [date |-> "2025-06-21", time |-> "00:00:00.001", locale |-> "6/21/2025"]>>

Now(c) == ClockValues[IF c <= Len(ClockValues) THEN c ELSE Len(ClockValues)]

BareContent == [kind |-> "string", text |-> <<"#", " ", "*", "a", "*">>]
StructuredContent ==
  [kind |-> "object",
   files |-> <<[title |-> <<"A", "u", "t", "h">>, content |-> <<"#", " ", "a">>],
               [title |-> <<"M", "a", "i", "l", " ", "S", "e", "n", "d">>,
                content |-> <<"*", "a", "*">>]>>]

TwoApis == <<[name |-> StripeName, content |-> BareContent],
             [name |-> SendGridName, content |-> StructuredContent]>>

\* The option objects the calls are drawn from; "pdf" is no ExportFormat, and
\* includeMetadata may be left out of the options of a single export.
ExportOptions ==
  LET Formats == SupportedFormats \cup {"pdf"}
  IN {[kind |-> "single", format |-> f, apiName |-> StripeName, content |-> c,
       includeMetadata |-> m] :
        f \in Formats, c \in {BareContent, StructuredContent}, m \in BOOLEAN}
     \cup {[kind |-> "single", format |-> f, apiName |-> StripeName,
            content |-> BareContent] : f \in {"json", "pdf"}}
     \cup {[kind |-> "bulk", format |-> f, apis |-> a, includeMetadata |-> m] :
            f \in Formats, a \in {<<>>, TwoApis}, m \in BOOLEAN}

\* The options overlapping calls are drawn from: every format and both kinds
\* of call and of content.
OverlapOptions ==
  {o \in ExportOptions :
     /\ "includeMetadata" \in DOMAIN o
     /\ o.kind = "single" =>
          /\ o.includeMetadata <=> o.content = BareContent
          /\ o.includeMetadata <=> o.format \in {"json", "text", "pdf"}
     /\ o.kind = "bulk" => (o.includeMetadata /\ o.apis = TwoApis)}

\* The mutant of the buffer: one buffer at module level, which a call finds as
\* the last call left it.
FreshBuffer_shared(last) == last

\* let text = '': the buffer of a call starts empty, whatever other calls wrote.
FreshBuffer(last) == <<>>

ExportInit ==
  /\ Off("export")
  /\ calls = [c \in 1..MaxCalls |-> [pc |-> "idle"]]
  /\ clock = 1

\* The call destructures its options and enters the switch: the default case
\* throws before anything is built.
ExportBegin(c, options) ==
  /\ calls[c].pc = "idle"
  /\ \A d \in 1..(c - 1) : calls[d].pc # "idle"
  /\ LET \* The buffer written last by any other call.
         LastBuffer ==
           IF \E d \in DOMAIN calls : d # c /\ calls[d].pc # "idle"
           THEN calls[CHOOSE d \in DOMAIN calls : d # c /\ calls[d].pc # "idle"].buf
           ELSE <<>>
     IN calls' = [calls EXCEPT ![c] =
          IF SerializerOf(options.format) = "unsupported"
          THEN [pc |-> "thrown", options |-> options, buf |-> <<>>, reads |-> <<>>,
                result |-> UnsupportedFormat(options.format)]
          ELSE [pc |-> "meta", options |-> options, buf |-> FreshBuffer(LastBuffer),
                reads |-> <<>>, result |-> Null]]
  /\ UNCHANGED <<clock, notExportVars>>

\* The next part of the serializer is appended; the last part returns the Blob.
ExportStep(c) ==
  /\ calls[c].pc \in {"meta", "head", "body"}
  /\ LET call == calls[c]
         reads == IF ReadsClock(call.options, call.pc)
                  THEN Append(call.reads, Now(clock)) ELSE call.reads
         buf == call.buf \o Part(call.options, call.pc, Now(clock))
         NextPhase == CASE call.pc = "meta" -> "head"
                        [] call.pc = "head" -> "body"
                        [] call.pc = "body" -> "returned"
     IN calls' = [calls EXCEPT ![c] =
          [call EXCEPT !.pc = NextPhase, !.buf = buf, !.reads = reads,
                       !.result = IF call.pc = "body"
                                  THEN Blob(MimeType(SerializerOf(call.options.format)), buf)
                                  ELSE Null]]
  /\ UNCHANGED <<clock, notExportVars>>

ClockTick ==
  /\ clock <= MaxTicks
  /\ \E c \in DOMAIN calls : calls[c].pc \in {"meta", "head", "body"}
  /\ clock' = clock + 1
  /\ UNCHANGED <<calls, notExportVars>>

ExportNext ==
  \/ \E c \in 1..MaxCalls, options \in OverlapOptions : ExportBegin(c, options)
  \/ \E c \in 1..MaxCalls : ExportStep(c)
  \/ ClockTick

\* Overlapping calls.
SpecExport == ExportInit /\ [][ExportNext]_vars

ExportOnceInit ==
  /\ Off("export")
  /\ calls = <<[pc |-> "idle"]>>
  /\ clock = 1

ExportOnceNext ==
  \/ \E options \in ExportOptions : ExportBegin(1, options)
  \/ ExportStep(1)
  \/ ClockTick

\* One call, with any options.
SpecExportOnce == ExportOnceInit /\ [][ExportOnceNext]_vars

(***************************************************************************)
(* One call of a serializer on contents, names and lists chosen for what   *)
(* the serializers do with them: back-tick fences for the plain-text       *)
(* transform, "]]>" for the CDATA sections, the five XML special           *)
(* characters for escapeXML, quotes, backslashes and line breaks for       *)
(* JSON.stringify, lists of 0..MaxSections sections and APIs, and names    *)
(* with white-space runs for the anchors of the table of contents.         *)
(***************************************************************************)
SerializerInputs ==
  LET Bare(text) == [kind |-> "string", text |-> text]
      Files(files) == [kind |-> "object", files |-> files]
      Single(format, apiName, content, incl) ==
        [kind |-> "single", format |-> format, apiName |-> apiName, content |-> content,
         includeMetadata |-> incl]
      Bulk(format, apis, incl) ==
        [kind |-> "bulk", format |-> format, apis |-> apis, includeMetadata |-> incl]
      Fenced == SeqsUpTo({BT, "a"}, MaxFence)
                  \cup {<<"a", NL, BT, BT, BT, NL, "a", NL, BT, BT, BT, NL, "a">>}
      Guarded == SeqsUpTo({"]", ">", "a"}, MaxLen)
      Entities == SeqsUpTo({"&", "<", ">", "\"", "'", "a"}, MaxEntity)
                    \cup {<<"<", "<", "&", ">", ">">>}
      Quoted == SeqsUpTo({"\"", "\\", NL, "a"}, MaxEntity)
      Sections ==
        SeqsUpTo({[title |-> <<"A", "u", "t", "h">>, content |-> <<"#", " ", "a">>],
                  [title |-> <<"M", "\"", "l">>, content |-> <<"\\", "n", NL, "-", "-", "-">>]},
                 MaxSections)
      Apis ==
        SeqsUpTo({[name |-> <<"S", "t", "r", "i", "p", "e">>, content |-> BareContent],
                  [name |-> <<"S", "e", "n", "d", "g", "r", "i", "d">>,
                   content |-> StructuredContent],
                  [name |-> <<"M", "y", " ", "\t", "A", "p", "i", " ", "2">>,
                   content |-> Files(<<>>)]},
                 MaxSections)
  IN {Single("text", StripeName, Bare(c), FALSE) : c \in Fenced}
     \cup {Bulk("text", <<[name |-> StripeName, content |-> Bare(c)]>>, FALSE) : c \in Fenced}
     \cup {Single("xml", StripeName, Bare(c), FALSE) : c \in Guarded}
     \cup {Single("xml", StripeName, Files(<<[title |-> <<"a">>, content |-> c]>>), FALSE) :
            c \in Guarded}
     \cup {Bulk("xml", <<[name |-> StripeName, content |-> Bare(c)]>>, FALSE) : c \in Guarded}
     \cup {Single("xml", n, BareContent, TRUE) : n \in Entities}
     \cup {Single("json", n, Bare(c), m) : n \in {StripeName, <<"\"", "\\">>}, c \in Quoted,
                                          m \in BOOLEAN}
     \cup {Single(f, StripeName, Files(l), m) :
            f \in {"json", "markdown"}, l \in Sections, m \in BOOLEAN}
     \cup {[kind |-> "single", format |-> "json", apiName |-> StripeName,
            content |-> Files(l)] : l \in Sections}
     \cup {Single(f, StripeName, c, m) :
            f \in SupportedFormats,
            c \in {Bare(<<>>), BareContent, Files(<<>>), StructuredContent}, m \in BOOLEAN}
     \cup {Bulk("xml", <<[name |-> StripeName, content |-> Files(l)]>>, FALSE) :
            l \in Sections}
     \cup {Bulk(f, a, m) : f \in SupportedFormats, a \in Apis, m \in BOOLEAN}

SerializerNext ==
  \/ \E options \in SerializerInputs : ExportBegin(1, options)
  \/ ExportStep(1)
  \/ ClockTick

\* One call of a serializer on the inputs above.
SpecSerializer == ExportOnceInit /\ [][SerializerNext]_vars

(***************************************************************************)
(* The plain-text transform applied to a content string and then to its    *)
(* own output.                                                             *)
(***************************************************************************)
StripInit ==
  /\ Off("strip")
  /\ stripPc = "in"
  /\ stripIn \in SeqsUpTo({"#", "*", " ", "a"}, MaxLen)
  /\ stripOnce = <<>>
  /\ stripTwice = <<>>

StripFirst ==
  /\ stripPc = "in"
  /\ stripOnce' = StripMarkdown(stripIn)
  /\ stripPc' = "once"
  /\ UNCHANGED <<stripIn, stripTwice, notStripVars>>

StripAgain ==
  /\ stripPc = "once"
  /\ stripTwice' = StripMarkdown(stripOnce)
  /\ stripPc' = "twice"
  /\ UNCHANGED <<stripIn, stripOnce, notStripVars>>

StripNext == StripFirst \/ StripAgain

SpecStrip == StripInit /\ [][StripNext]_vars

(***************************************************************************)
(* The export buttons (handleExport, handleExportAll) and downloadFile.    *)
(* A handler invocation runs its synchronous code without interruption     *)
(* (running) and gives the thread up at an await; other invocations start  *)
(* or resume only then.                                                    *)
(***************************************************************************)
\* The two components; each has an isExporting state of its own.
Buttons == {"ExportButton", "ExportAllButton"}

\* The arguments the handlers are called with: a string at run time, "pdf" is
\* no ExportFormat.
HandlerFormats == {"json", "xml", "pdf"}

\* The mutant of getFileExtension: a switch without the default case, which
\* returns undefined for a value that is no ExportFormat.
getFileExtension_noDefault(format) ==
  CASE format = "json"     -> ".json"
    [] format = "markdown" -> ".md"
    [] format = "text"     -> ".txt"
    [] format = "xml"      -> ".xml"
    [] OTHER               -> "undefined"

getFileExtension(format) ==
  CASE format = "json"     -> ".json"
    [] format = "markdown" -> ".md"
    [] format = "text"     -> ".txt"
    [] format = "xml"      -> ".xml"
    [] OTHER               -> ".txt"

\* The mutant of generateFilename: the date as toLocaleDateString() gives it.
generateFilename_localeDate(apiName, format, t) ==
  ToLowerCase(apiName) \o <<"-api-docs-">> \o ToLocaleDateString(t)
    \o <<getFileExtension(format)>>

\* `${apiName.toLowerCase()}-api-docs-${timestamp}${extension}`
generateFilename(apiName, format, t) ==
  ToLowerCase(apiName) \o <<"-api-docs-">> \o IsoDatePart(t)
    \o <<getFileExtension(format)>>

\* `all-apis-documentation-${timestamp}${extension}`
AllApisFilename(format, t) ==
  <<"all-apis-documentation-">> \o IsoDatePart(t) \o <<getFileExtension(format)>>

\* sonner toasts.
ExportSuccess == [kind |-> "success", message |-> "api.exportSuccess"]
ExportFailed == [kind |-> "error", message |-> "Export failed. Please try again."]
NoApisAvailable == [kind |-> "error", message |-> "No APIs available to export"]

\* The mutant of the catch block: the error is logged to the console only.
OnCatch_silent(toasts) == toasts

\* catch (error) { console.error(...); toast.error("Export failed. Please try again.") }
OnCatch(toasts) == Append(toasts, ExportFailed)

\* What fetch('/api/export') and response.json() settle with.
FetchOutcomes ==
  LET JsonBody(data) == [kind |-> "data", data |-> data]
      Response(ok, json) == [kind |-> "response", ok |-> ok, json |-> json]
  IN {[kind |-> "rejected"],
      Response(FALSE, JsonBody([error |-> "Failed to fetch API content"])),
      Response(TRUE, [kind |-> "rejected"]),
      Response(TRUE, JsonBody([error |-> "Failed to fetch API content"])),
      Response(TRUE, JsonBody([apis |-> <<>>])),
      Response(TRUE, JsonBody([apis |-> TwoApis]))}

Invocation(pc, button, format, content) ==
  [pc |-> pc, button |-> button, format |-> format, content |-> content,
   body |-> [kind |-> "rejected"], data |-> <<>>, blob |-> Null, filename |-> <<>>,
   url |-> "none", link |-> "none", downloads |-> <<>>, toasts |-> <<>>,
   fetches |-> 0, exports |-> 0, failedAt |-> "none", returned |-> FALSE]

\* The blob a handler gets from the exporter for the options object it
\* passes; the clock does not advance during a handler's synchronous code.
HandlerExport(button, format, content, data) ==
  LET clk == <<Now(1), Now(1), Now(1)>>
  IN IF button = "ExportButton"
     THEN exportDocument([kind |-> "single", format |-> format,
                          apiName |-> StripeName, content |-> content,
                          includeMetadata |-> TRUE], clk)
     ELSE exportMultipleApis([kind |-> "bulk", format |-> format,
                              apis |-> data, includeMetadata |-> TRUE], clk)

\* The blobs of the sample content and of the sample list, computed once.
HandlerBlobs ==
  [button \in Buttons, format \in HandlerFormats |->
     HandlerExport(button, format, StructuredContent, TwoApis)]

HandlerBlob(call) ==
  IF call.format \in HandlerFormats
       /\ IF call.button = "ExportButton" THEN call.content = StructuredContent
          ELSE call.data = TwoApis
  THEN HandlerBlobs[call.button, call.format]
  ELSE HandlerExport(call.button, call.format, call.content, call.data)

\* The calls that may throw after the exporter returned: generateFilename and
\* the DOM calls of downloadFile.
ThrowPoints == {"filename", "createObjectURL", "appendChild", "click", "removeChild"}

ButtonInit ==
  /\ Off("button")
  /\ inv = [i \in 1..MaxInvocations |-> Invocation("idle", "none", "none", <<>>)]
  /\ isExporting = [b \in Buttons |-> FALSE]
  /\ running = 0

\* <DropdownMenuItem onClick={() => handleExport(format)}>: the items call the
\* handler whatever isExporting is.  The handler starts with
\* setIsExporting(true).
Select(b, format, content) ==
  /\ running = 0
  /\ \E i \in DOMAIN inv : inv[i].pc = "idle"
  /\ LET FreeSlot == CHOOSE i \in DOMAIN inv :
                        inv[i].pc = "idle" /\ \A j \in 1..(i - 1) : inv[j].pc # "idle"
     IN /\ inv' = [inv EXCEPT ![FreeSlot] =
             Invocation(IF b = "ExportButton" THEN "export" ELSE "fetch", b, format,
                        IF b = "ExportButton" THEN content ELSE <<>>)]
        /\ running' = FreeSlot
  /\ isExporting' = [isExporting EXCEPT ![b] = TRUE]
  /\ UNCHANGED notButtonVars

\* const response = await fetch('/api/export')
Fetch(i) ==
  /\ running = i
  /\ inv[i].pc = "fetch"
  /\ inv' = [inv EXCEPT ![i].pc = "fetching", ![i].fetches = @ + 1]
  /\ running' = 0
  /\ UNCHANGED <<isExporting, notButtonVars>>

\* The fetch settles: a rejection and a response that is not ok go to the
\* catch block, an ok response to await response.json().
FetchSettle(i, outcome) ==
  /\ running = 0
  /\ inv[i].pc = "fetching"
  /\ IF outcome.kind = "rejected"
     THEN /\ inv' = [inv EXCEPT ![i].pc = "catch", ![i].failedAt = "fetch"]
          /\ running' = i
     ELSE IF ~outcome.ok
     THEN /\ inv' = [inv EXCEPT ![i].pc = "catch", ![i].failedAt = "response"]
          /\ running' = i
     ELSE /\ inv' = [inv EXCEPT ![i].pc = "parsing", ![i].body = outcome.json]
          /\ running' = 0
  /\ UNCHANGED <<isExporting, notButtonVars>>

\* The mutant of the check of the list: only a missing list is reported
\* (!validApis), an empty one is exported.
JsonSettle_emptyExported(i) ==
  /\ running = 0
  /\ inv[i].pc = "parsing"
  /\ inv' = [inv EXCEPT ![i] =
       IF inv[i].body.kind = "rejected"
       THEN [@ EXCEPT !.pc = "catch", !.failedAt = "json"]
       ELSE IF "apis" \notin DOMAIN inv[i].body.data
       THEN [@ EXCEPT !.pc = "finally", !.toasts = Append(@, NoApisAvailable)]
       ELSE [@ EXCEPT !.pc = "export", !.data = inv[i].body.data.apis]]
  /\ running' = i
  /\ UNCHANGED <<isExporting, notButtonVars>>

\* response.json() settles; an empty or missing list (!validApis ||
\* validApis.length === 0) is reported and the handler returns.
JsonSettle(i) ==
  /\ running = 0
  /\ inv[i].pc = "parsing"
  /\ inv' = [inv EXCEPT ![i] =
       IF inv[i].body.kind = "rejected"
       THEN [@ EXCEPT !.pc = "catch", !.failedAt = "json"]
       ELSE IF "apis" \notin DOMAIN inv[i].body.data \/ inv[i].body.data.apis = <<>>
       THEN [@ EXCEPT !.pc = "finally", !.toasts = Append(@, NoApisAvailable)]
       ELSE [@ EXCEPT !.pc = "export", !.data = inv[i].body.data.apis]]
  /\ running' = i
  /\ UNCHANGED <<isExporting, notButtonVars>>

\* const blob = exportDocument({...}) / exportMultipleApis({...})
ExportCall(i) ==
  /\ running = i
  /\ inv[i].pc = "export"
  /\ inv' = [inv EXCEPT ![i] =
       IF HandlerBlob(inv[i]).kind = "throw"
       THEN [@ EXCEPT !.pc = "catch", !.failedAt = "export", !.exports = @ + 1]
       ELSE [@ EXCEPT !.pc = "filename", !.blob = HandlerBlob(inv[i]),
                      !.exports = @ + 1]]
  /\ UNCHANGED <<isExporting, running, notButtonVars>>

\* generateFilename(apiName, format) / the all-apis template literal.
Filename(i) ==
  /\ running = i
  /\ inv[i].pc = "filename"
  /\ inv' = [inv EXCEPT ![i].pc = "createObjectURL",
       ![i].filename = IF inv[i].button = "ExportButton"
                       THEN generateFilename(StripeName, inv[i].format, Now(1))
                       ELSE AllApisFilename(inv[i].format, Now(1))]
  /\ UNCHANGED <<isExporting, running, notButtonVars>>

\* downloadFile: const url = URL.createObjectURL(blob); the link is created
\* and given its href and download attributes.
CreateObjectURL(i) ==
  /\ running = i
  /\ inv[i].pc = "createObjectURL"
  /\ inv' = [inv EXCEPT ![i].pc = "appendChild", ![i].url = "live",
                        ![i].link = "created"]
  /\ UNCHANGED <<isExporting, running, notButtonVars>>

\* document.body.appendChild(link)
AppendChild(i) ==
  /\ running = i
  /\ inv[i].pc = "appendChild"
  /\ inv' = [inv EXCEPT ![i].pc = "click", ![i].link = "attached"]
  /\ UNCHANGED <<isExporting, running, notButtonVars>>

\* link.click(): the browser starts the download of the link's href.
Click(i) ==
  /\ running = i
  /\ inv[i].pc = "click"
  /\ inv' = [inv EXCEPT ![i].pc = "removeChild",
       ![i].downloads = Append(@, [blob |-> inv[i].blob,
                                   filename |-> inv[i].filename,
                                   url |-> inv[i].url])]
  /\ UNCHANGED <<isExporting, running, notButtonVars>>

\* document.body.removeChild(link)
RemoveChild(i) ==
  /\ running = i
  /\ inv[i].pc = "removeChild"
  /\ inv' = [inv EXCEPT ![i].pc = "revokeObjectURL", ![i].link = "detached"]
  /\ UNCHANGED <<isExporting, running, notButtonVars>>

\* URL.revokeObjectURL(url), the last statement of downloadFile.
RevokeObjectURL(i) ==
  /\ running = i
  /\ inv[i].pc = "revokeObjectURL"
  /\ inv' = [inv EXCEPT ![i].pc = "success", ![i].url = "revoked",
                        ![i].returned = TRUE]
  /\ UNCHANGED <<isExporting, running, notButtonVars>>

\* toast.success(t("api.exportSuccess"))
ToastSuccess(i) ==
  /\ running = i
  /\ inv[i].pc = "success"
  /\ inv' = [inv EXCEPT ![i].pc = "finally", ![i].toasts = Append(@, ExportSuccess)]
  /\ UNCHANGED <<isExporting, running, notButtonVars>>

\* A call inside the try block throws: control leaves downloadFile, which has
\* no handler of its own, for the catch block of the handler.
Throws(i) ==
  /\ running = i
  /\ inv[i].pc \in ThrowPoints
  /\ inv' = [inv EXCEPT ![i].pc = "catch", ![i].failedAt = inv[i].pc]
  /\ UNCHANGED <<isExporting, running, notButtonVars>>

Catch(i) ==
  /\ running = i
  /\ inv[i].pc = "catch"
  /\ inv' = [inv EXCEPT ![i].pc = "finally", ![i].toasts = OnCatch(@)]
  /\ UNCHANGED <<isExporting, running, notButtonVars>>

\* The mutant of the finally block: setIsExporting(false) as the last
\* statement of the try block, which a return or a throw skips.
Finally_endOfTry(i) ==
  /\ running = i
  /\ inv[i].pc = "finally"
  /\ inv' = [inv EXCEPT ![i].pc = "done"]
  /\ isExporting' = IF ExportSuccess \in {inv[i].toasts[k] : k \in DOMAIN inv[i].toasts}
                    THEN [isExporting EXCEPT ![inv[i].button] = FALSE]
                    ELSE isExporting
  /\ running' = 0
  /\ UNCHANGED notButtonVars

\* finally { setIsExporting(false) }
Finally(i) ==
  /\ running = i
  /\ inv[i].pc = "finally"
  /\ inv' = [inv EXCEPT ![i].pc = "done"]
  /\ isExporting' = [isExporting EXCEPT ![inv[i].button] = FALSE]
  /\ running' = 0
  /\ UNCHANGED notButtonVars

ButtonNext ==
  \/ \E b \in Buttons, format \in HandlerFormats, content \in {StructuredContent} :
       Select(b, format, content)
  \/ \E i \in DOMAIN inv : Fetch(i)
  \/ \E i \in DOMAIN inv, outcome \in FetchOutcomes : FetchSettle(i, outcome)
  \/ \E i \in DOMAIN inv : JsonSettle(i)
  \/ \E i \in DOMAIN inv : ExportCall(i)
  \/ \E i \in DOMAIN inv : Filename(i)
  \/ \E i \in DOMAIN inv : CreateObjectURL(i)
  \/ \E i \in DOMAIN inv : AppendChild(i)
  \/ \E i \in DOMAIN inv : Click(i)
  \/ \E i \in DOMAIN inv : RemoveChild(i)
  \/ \E i \in DOMAIN inv : RevokeObjectURL(i)
  \/ \E i \in DOMAIN inv : ToastSuccess(i)
  \/ \E i \in DOMAIN inv : Throws(i)
  \/ \E i \in DOMAIN inv : Catch(i)
  \/ \E i \in DOMAIN inv : Finally(i)

SpecButton == ButtonInit /\ [][ButtonNext]_vars

\* A step of a handler that has started: its synchronous code runs to the
\* next await or to its end, and a pending fetch or response.json() settles.
HandlerStep ==
  \E i \in DOMAIN inv :
     \/ Fetch(i) \/ JsonSettle(i) \/ ExportCall(i) \/ Filename(i) \/ CreateObjectURL(i)
     \/ AppendChild(i) \/ Click(i) \/ RemoveChild(i) \/ RevokeObjectURL(i)
     \/ ToastSuccess(i) \/ Throws(i) \/ Catch(i) \/ Finally(i)
     \/ \E outcome \in FetchOutcomes : FetchSettle(i, outcome)

\* For the busy flag a format counts as one the exporter supports or one it
\* throws on.
ButtonFairNext ==
  \/ \E b \in Buttons, format \in {"json", "pdf"} : Select(b, format, StructuredContent)
  \/ HandlerStep

\* The handlers with a JavaScript event loop that runs what is ready and a
\* network that settles every request.
SpecButtonFair == ButtonInit /\ [][ButtonFairNext]_vars /\ WF_vars(HandlerStep)

(***************************************************************************)
(* Calls of generateFilename, each reading the clock once; time passes     *)
(* between the calls.  The arguments are strings at run time: a name may   *)
(* be empty or hold spaces, a format may be no ExportFormat.               *)
(***************************************************************************)
FilenameInit ==
  /\ Off("export")
  /\ calls = [c \in 1..MaxCalls |-> [pc |-> "idle"]]
  /\ clock = 1

GenerateFilenameCall(c, apiName, format) ==
  /\ calls[c].pc = "idle"
  /\ \A d \in 1..(c - 1) : calls[d].pc # "idle"
  /\ calls' = [calls EXCEPT ![c] =
       [pc |-> "returned",
        options |-> [kind |-> "filename", apiName |-> apiName, format |-> format],
        reads |-> <<Now(clock)>>,
        result |-> generateFilename(apiName, format, Now(clock))]]
  /\ UNCHANGED <<clock, notExportVars>>

FilenameTick ==
  /\ clock <= MaxTicks
  /\ clock' = clock + 1
  /\ UNCHANGED <<calls, notExportVars>>

FilenameNext ==
  \/ \E c \in 1..MaxCalls,
        apiName \in {StripeName, SendGridName, <<"M", "y", " ", "A", "P", "I">>, <<>>},
        format \in SupportedFormats \cup {"pdf", ""} :
       GenerateFilenameCall(c, apiName, format)
  \/ FilenameTick

SpecFilename == FilenameInit /\ [][FilenameNext]_vars

(***************************************************************************)
(* The content regeneration job: main runs the collectors in turn, every   *)
(* collector saves its three documents with saveMarkdown.  The documents   *)
(* are built from literals of the collectors, so a document is a function  *)
(* of its file name.                                                       *)
(***************************************************************************)
\* The collectors of main, in order, by the apiName they hand to super().
Collectors == <<"stripe", "sendgrid", "twilio", "supabase">>

\* path.join(process.cwd(), 'contents', apiName.toLowerCase()); the names are
\* lower-case literals.
OutputDir(apiName) == apiName

\* The saveMarkdown calls of collect(), in order.
CollectorFiles(apiName) ==
  CASE apiName = "stripe"   -> <<"payment-intents.md", "customers.md", "subscriptions.md">>
    [] apiName = "sendgrid" -> <<"mail-send.md", "contacts.md", "templates.md">>
    [] apiName = "twilio"   -> <<"messaging.md", "voice.md", "verify.md">>
    [] apiName = "supabase" -> <<"auth.md", "database.md", "storage.md">>

\* The markdown a generate...Doc method builds: the introduction, then
\* formatFunctionToMarkdown of every function.
Document(filename) ==
  <<[doc |-> filename, part |-> "introduction"], [doc |-> filename, part |-> "functions"]>>

\* contents/<apiName> as a directory without files: the paths of the
\* collector's documents and of notes.md, a file nobody generates.
EmptyDirectory(apiName) ==
  [kind |-> "directory",
   files |-> [f \in {CollectorFiles(apiName)[j] : j \in DOMAIN CollectorFiles(apiName)}
                      \cup {"notes.md"} |-> [kind |-> "absent"]]]

\* The states contents/<apiName> is drawn from: no such path, a regular
\* file, and a directory that is empty, generated, partly generated (the
\* second document cut short by an interrupted write), written by an older
\* generator, or has a subdirectory where the second document goes.
PathShapes(apiName) ==
  LET FileNames == DOMAIN EmptyDirectory(apiName).files
      RegularFile(content) == [kind |-> "file", content |-> content]
      Directory(files) == [kind |-> "directory", files |-> files]
      Absent == [kind |-> "absent"]
      GeneratedDirectory ==
        Directory([f \in FileNames |->
                     IF f = "notes.md" THEN Absent ELSE RegularFile(Document(f))])
      PartialDirectory ==
        Directory([f \in FileNames |->
                     CASE f = CollectorFiles(apiName)[1] -> RegularFile(Document(f))
                       [] f = CollectorFiles(apiName)[2] ->
                            RegularFile(<<[doc |-> f, part |-> "introduction"]>>)
                       [] OTHER -> Absent])
      StaleDirectory ==
        Directory([f \in FileNames |-> RegularFile(<<[doc |-> f, part |-> "old"]>>)])
      ObstructedDirectory ==
        Directory([f \in FileNames |->
                     IF f = CollectorFiles(apiName)[2]
                     THEN [kind |-> "directory"] ELSE Absent])
  IN {[kind |-> "missing", files |-> <<>>], [kind |-> "file", files |-> <<>>],
      EmptyDirectory(apiName), GeneratedDirectory, PartialDirectory, StaleDirectory,
      ObstructedDirectory}

FileSystems ==
  LET CollectorSet == {Collectors[k] : k \in DOMAIN Collectors}
  IN {f \in [CollectorSet -> UNION {PathShapes(a) : a \in CollectorSet}] :
        \A a \in CollectorSet : f[a] \in PathShapes(a)}

\* fs.mkdir(outputDir, { recursive: true }): creates what is missing, accepts
\* a directory that exists, and fails on a path that is a regular file.
MkdirThrows(path) == path.kind = "file"
Mkdir(apiName, path) ==
  IF path.kind = "missing" THEN EmptyDirectory(apiName) ELSE path

\* The mutant of fs.writeFile: the content is appended to the file.
WriteFile_append(old, content) ==
  [kind |-> "file", content |-> (IF old.kind = "file" THEN old.content ELSE <<>>) \o content]

\* fs.writeFile(filePath, content, 'utf-8'): creates the file or replaces its
\* content; it fails when the path is a directory.
WriteFile(old, content) == [kind |-> "file", content |-> content]
WriteFileThrows(old) == old.kind = "directory"

SaveMarkdownThrows(apiName, path, filename) ==
  IF MkdirThrows(path) THEN TRUE
  ELSE WriteFileThrows(Mkdir(apiName, path).files[filename])

\* What saveMarkdown leaves at contents/<apiName>, whether it returns or throws.
SaveMarkdownEffect(apiName, path, filename) ==
  IF MkdirThrows(path) THEN path
  ELSE LET dir == Mkdir(apiName, path)
       IN IF WriteFileThrows(dir.files[filename]) THEN dir
          ELSE [dir EXCEPT
                 !.files[filename] = WriteFile(dir.files[filename], Document(filename))]

\* The collector main is running and the document it saves next; collector 0
\* when the script is not running.
CurrentCollector == Collectors[jobPc.collector]
CurrentFile == CollectorFiles(CurrentCollector)[jobPc.file]

JobInit ==
  /\ Off("job")
  /\ fs \in FileSystems
  /\ jobPc = [collector |-> 0, file |-> 0]
  /\ jobLog = <<>>
  /\ snapshots = <<fs>>

\* main() is started: the script is run.
JobStart ==
  /\ jobPc = [collector |-> 0, file |-> 0]
  /\ Len(snapshots) <= MaxRuns
  /\ jobPc' = [collector |-> 1, file |-> 1]
  /\ UNCHANGED <<fs, jobLog, snapshots, notJobVars>>

\* A generate...Doc method of the current collector saves its document.
SaveMarkdown ==
  /\ jobPc.collector \in DOMAIN Collectors
  /\ ~SaveMarkdownThrows(CurrentCollector, fs[OutputDir(CurrentCollector)], CurrentFile)
  /\ fs' = [fs EXCEPT ![OutputDir(CurrentCollector)] =
              SaveMarkdownEffect(CurrentCollector, @, CurrentFile)]
  /\ jobPc' = IF jobPc.file < Len(CollectorFiles(CurrentCollector))
              THEN [jobPc EXCEPT !.file = @ + 1]
              ELSE [collector |-> jobPc.collector + 1, file |-> 1]
  /\ UNCHANGED <<jobLog, snapshots, notJobVars>>

\* The mutant of the loop body: no try around await collector.collect(), so
\* that the rejection ends main, which main().catch logs.
CollectorFails_endsMain ==
  /\ jobPc.collector \in DOMAIN Collectors
  /\ SaveMarkdownThrows(CurrentCollector, fs[OutputDir(CurrentCollector)], CurrentFile)
  /\ fs' = [fs EXCEPT ![OutputDir(CurrentCollector)] =
              SaveMarkdownEffect(CurrentCollector, @, CurrentFile)]
  /\ jobLog' = Append(jobLog, [collector |-> CurrentCollector, file |-> CurrentFile])
  /\ jobPc' = [collector |-> Len(Collectors) + 1, file |-> 1]
  /\ UNCHANGED <<snapshots, notJobVars>>

\* saveMarkdown throws: collect() rejects, main logs the error and goes on to
\* the next collector.
CollectorFails ==
  /\ jobPc.collector \in DOMAIN Collectors
  /\ SaveMarkdownThrows(CurrentCollector, fs[OutputDir(CurrentCollector)], CurrentFile)
  /\ fs' = [fs EXCEPT ![OutputDir(CurrentCollector)] =
              SaveMarkdownEffect(CurrentCollector, @, CurrentFile)]
  /\ jobLog' = Append(jobLog, [collector |-> CurrentCollector, file |-> CurrentFile])
  /\ jobPc' = [collector |-> jobPc.collector + 1, file |-> 1]
  /\ UNCHANGED <<snapshots, notJobVars>>

\* The for loop is over: main resolves.
JobFinish ==
  /\ jobPc.collector = Len(Collectors) + 1
  /\ jobPc' = [collector |-> 0, file |-> 0]
  /\ snapshots' = Append(snapshots, fs)
  /\ UNCHANGED <<fs, jobLog, notJobVars>>

JobNext == JobStart \/ SaveMarkdown \/ CollectorFails \/ JobFinish

SpecJob == JobInit /\ [][JobNext]_vars

(***************************************************************************)
(* CopyButton.  The component has one state, hasCopied, and one effect     *)
(* that depends on it: when hasCopied is true the effect starts a timer    *)
(* that resets it, and returns a cleanup that clears that timer.  React    *)
(* runs the cleanup before it runs the effect again and when the component *)
(* unmounts, and it drops a state update of a component that is gone.      *)
(* copy.timers counts the timeouts that are pending; copy.own tells        *)
(* whether the timeout of the last effect run, the one its cleanup would   *)
(* clear, is among them.  copy.event is the last thing that happened.      *)
(***************************************************************************)
CopyInit ==
  /\ Off("copy")
  /\ copy = [mounted |-> FALSE, hasCopied |-> FALSE, writes |-> <<>>, effect |-> "settled",
             timers |-> 0, own |-> FALSE, clipboard |-> "empty", event |-> "none"]

\* The component mounts: useState(false); the effect runs with hasCopied
\* false and does nothing.
CopyMount ==
  /\ ~copy.mounted
  /\ copy' = [copy EXCEPT !.mounted = TRUE, !.hasCopied = FALSE, !.effect = "settled",
                          !.event = "mounted"]
  /\ UNCHANGED notCopyVars

\* onClick={copyToClipboard}: the text or, with a context, the AI prompt is
\* handed to navigator.clipboard.writeText, and the handler awaits.
CopyToClipboard(context) ==
  /\ copy.mounted
  /\ Len(copy.writes) < MaxPending
  /\ copy' = [copy EXCEPT !.writes = Append(@, IF context THEN "prompt" ELSE "text"),
                          !.event = "clicked"]
  /\ UNCHANGED notCopyVars

\* setHasCopied(value) of a component: nothing happens when the component is
\* gone or the state has the value already; otherwise the component renders
\* again and its effect is due.
SetHasCopied(c, value) ==
  IF c.mounted /\ c.hasCopied # value
  THEN [c EXCEPT !.hasCopied = value, !.effect = "due"]
  ELSE c

\* The cleanup of the last effect run: clearTimeout(timer).
ClearTimeout(c) ==
  IF c.own THEN [c EXCEPT !.timers = @ - 1, !.own = FALSE] ELSE c

\* writeText resolves: setHasCopied(true).
WriteResolves ==
  /\ copy.writes # <<>>
  /\ copy' = [SetHasCopied(copy, TRUE) EXCEPT !.writes = Tail(@),
                                               !.clipboard = Head(copy.writes),
                                               !.event = "resolved"]
  /\ UNCHANGED notCopyVars

\* writeText rejects: the catch block logs the error.
WriteRejects ==
  /\ copy.writes # <<>>
  /\ copy' = [copy EXCEPT !.writes = Tail(@), !.event = "rejected"]
  /\ UNCHANGED notCopyVars

\* hasCopied has changed: React runs the cleanup of the last effect run and
\* then the effect, which starts a timer when hasCopied is true.
CopyEffect ==
  /\ copy.mounted
  /\ copy.effect = "due"
  /\ copy' = [ClearTimeout(copy) EXCEPT
                !.effect = "settled",
                !.timers = IF copy.hasCopied THEN @ + 1 ELSE @,
                !.own = copy.hasCopied,
                !.event = "effect"]
  /\ UNCHANGED notCopyVars

\* A pending timeout fires after its 2000 ms: setHasCopied(false).  mine
\* tells whether it is the timeout of the last effect run.
TimerFires(mine) ==
  /\ copy.timers > 0
  /\ IF mine THEN copy.own ELSE copy.timers > (IF copy.own THEN 1 ELSE 0)
  /\ copy' = [SetHasCopied(copy, FALSE) EXCEPT
                !.timers = @ - 1,
                !.own = IF mine THEN FALSE ELSE @,
                !.event = IF copy.mounted THEN "reset" ELSE "reset after unmount"]
  /\ UNCHANGED notCopyVars

\* The mutant of the unmount: the effect returns no cleanup, the timeout is
\* left pending.
CopyUnmount_timerLeft ==
  /\ copy.mounted
  /\ copy' = [copy EXCEPT !.mounted = FALSE, !.hasCopied = FALSE, !.own = FALSE,
                          !.effect = "settled", !.event = "unmounted"]
  /\ UNCHANGED notCopyVars

\* The component unmounts: React runs the cleanup of the last effect run.
CopyUnmount ==
  /\ copy.mounted
  /\ copy' = [ClearTimeout(copy) EXCEPT !.mounted = FALSE, !.hasCopied = FALSE,
                                         !.effect = "settled", !.event = "unmounted"]
  /\ UNCHANGED notCopyVars

CopyNext ==
  \/ CopyMount
  \/ \E context \in BOOLEAN : CopyToClipboard(context)
  \/ WriteResolves
  \/ WriteRejects
  \/ CopyEffect
  \/ \E mine \in BOOLEAN : TimerFires(mine)
  \/ CopyUnmount

\* The event loop runs the effects that are due and the timeouts that are
\* pending.
SpecCopy ==
  /\ CopyInit
  /\ [][CopyNext]_vars
  /\ WF_vars(CopyEffect)
  /\ WF_vars(\E mine \in BOOLEAN : TimerFires(mine))

(***************************************************************************)
(* I18nProvider.  i18n.stored is localStorage.language (a string, or no    *)
(* item), i18n.browser is navigator.language; both outlive the provider.   *)
(* The effect of the provider has no dependencies and runs once after the  *)
(* mount.  i18n.event is the last thing that happened and i18n.arg the     *)
(* argument of the last setLanguage call.                                  *)
(***************************************************************************)
I18nInit ==
  /\ Off("i18n")
  /\ \E stored \in {[present |-> FALSE, value |-> ""]}
                     \cup {[present |-> TRUE, value |-> v] : v \in {"", "en", "ja", "fr", "EN"}},
        browser \in {<<"e", "n", "-", "U", "S">>, <<"j", "a">>, <<"J", "A", "-", "J", "P">>,
                     <<"j">>, <<"f", "r">>} :
       i18n = [mounted |-> FALSE, language |-> "en", effect |-> "settled",
               stored |-> stored, browser |-> browser, event |-> "none", arg |-> "none"]

\* The provider mounts: useState("en"); its effect is due.
I18nMount ==
  /\ ~i18n.mounted
  /\ i18n' = [i18n EXCEPT !.mounted = TRUE, !.language = "en", !.effect = "due",
                          !.event = "mounted"]
  /\ UNCHANGED notI18nVars

\* The mutant of the effect: a saved value is taken as it is.
I18nEffect_unvalidated ==
  /\ i18n.mounted
  /\ i18n.effect = "due"
  /\ LET savedLang == i18n.stored
         browserLang == ToLowerCase(i18n.browser)
     IN i18n' = [i18n EXCEPT
          !.effect = "settled",
          !.event = "effect",
          !.language =
             IF savedLang.present /\ savedLang.value # ""
             THEN savedLang.value
             ELSE IF OccursAt(browserLang, 1, <<"j", "a">>) THEN "ja" ELSE @]
  /\ UNCHANGED notI18nVars

\* The effect: localStorage.getItem("language") when it is en or ja,
\* otherwise ja when navigator.language in lower case starts with ja.
I18nEffect ==
  /\ i18n.mounted
  /\ i18n.effect = "due"
  /\ LET savedLang == i18n.stored
         browserLang == ToLowerCase(i18n.browser)
     IN i18n' = [i18n EXCEPT
          !.effect = "settled",
          !.event = "effect",
          !.language =
             IF savedLang.present /\ savedLang.value # ""
                  /\ (savedLang.value = "en" \/ savedLang.value = "ja")
             THEN savedLang.value
             ELSE IF OccursAt(browserLang, 1, <<"j", "a">>) THEN "ja" ELSE @]
  /\ UNCHANGED notI18nVars

\* setLanguage(lang), called by the items of LanguageSelector with "en" and
\* "ja": setLanguageState(lang); localStorage.setItem("language", lang).
SetLanguage(lang) ==
  /\ i18n.mounted
  /\ i18n' = [i18n EXCEPT !.language = lang,
                          !.stored = [present |-> TRUE, value |-> lang],
                          !.event = "set", !.arg = lang]
  /\ UNCHANGED notI18nVars

\* The page is reloaded: the provider is gone, localStorage is kept.
I18nReload ==
  /\ i18n.mounted
  /\ i18n' = [i18n EXCEPT !.mounted = FALSE, !.language = "en", !.effect = "settled",
                          !.event = "reload"]
  /\ UNCHANGED notI18nVars

I18nNext ==
  \/ I18nMount
  \/ I18nEffect
  \/ \E lang \in {"en", "ja"} : SetLanguage(lang)
  \/ I18nReload

SpecI18n == I18nInit /\ [][I18nNext]_vars

\* C10: the plain-text Markdown-stripping transform is idempotent: applied to
\* its own output it changes nothing.
C10_StripIdempotent == stripPc = "twice" => stripTwice = stripOnce

SpecRoute == RouteInit /\ [][RouteNext]_vars

\* C1: GET /api/export is best-effort per API: whatever the per-API load
\* outcomes, the request succeeds and its apis array holds exactly the APIs
\* whose content loaded.
C1_ExportBestEffort ==
  getPc = "responded" =>
    /\ response.status = 200
    /\ [i \in 1..Len(response.apis) |-> response.apis[i].id]
         = SelectSeq(getAvailableApis, LAMBDA id : getApiContent(disk, id).kind = "content")

\* C5: when every API loads, the response holds exactly one {id, name, content}
\* entry per id of getAvailableApis(), in that order, whatever the order in
\* which the loads complete.
C5_ExportOrder ==
  (getPc = "responded"
     /\ \A i \in 1..Len(getAvailableApis) :
          getApiContent(disk, getAvailableApis[i]).kind = "content") =>
    /\ response.status = 200
    /\ Len(response.apis) = Len(getAvailableApis)
    /\ \A i \in 1..Len(getAvailableApis) :
         LET unit == getApiContent(disk, getAvailableApis[i])
         IN /\ response.apis[i].id = getAvailableApis[i]
            /\ response.apis[i].name = unit.name
            /\ response.apis[i].content = unit

C5_Witness ==
  /\ getPc = "responded"
  /\ \A i \in 1..Len(getAvailableApis) :
       getApiContent(disk, getAvailableApis[i]).kind = "content"
  /\ response.status = 200
  /\ completionOrder = <<4, 2, 1, 3>>

\* C6: the lookup yields not-found for every id that is not a recognized id,
\* even when a contents directory of that name exists.
C6_UnrecognizedNotFound ==
  (pagePc = "done" /\ pageReq \notin RecognizedIds) => pageResult.kind = "notFound"

\* C7: every unit getApiContent returns as found, so every entry of the export
\* response and every unit handed to the page renderer, has a non-empty list
\* of files.
C7_SectionsNonEmpty ==
  /\ (getPc = "responded" /\ response.status = 200) =>
        \A i \in 1..Len(response.apis) : response.apis[i].content.files # <<>>
  /\ (pagePc = "done" /\ pageResult.kind \in {"rendered", "error"}
        /\ pageResult.unit # Null) =>
        pageResult.unit.files # <<>>

\* C2: a call with a format outside {json, markdown, text, xml} throws an
\* error whose message names the format, and returns no blob and no partial
\* output, whatever the content and includeMetadata.
C2_UnsupportedFormatThrows ==
  \A c \in DOMAIN calls :
    (calls[c].pc # "idle" /\ calls[c].options.format \notin SupportedFormats) =>
      /\ calls[c].pc = "thrown"
      /\ calls[c].result.kind = "throw"
      /\ calls[c].result.message = <<"Unsupported format: ", calls[c].options.format>>
      /\ calls[c].buf = <<>>

C2_Witness ==
  \E c \in DOMAIN calls :
    /\ calls[c].pc = "thrown"
    /\ calls[c].options.kind = "bulk"
    /\ calls[c].options.format = "pdf"
    /\ calls[c].options.apis # <<>>
    /\ ~calls[c].options.includeMetadata
    /\ calls[c].result.message[2] = "pdf"

\* C4: export calls share no mutable state: for any interleaving of calls the
\* blob a call returns depends only on its own arguments and the clock values
\* it read, and equals the result of the call run alone.
C4_CallsIndependent ==
  \A c \in DOMAIN calls :
    calls[c].pc = "returned" => calls[c].result = Export(calls[c].options, calls[c].reads)

C4_Witness ==
  /\ calls[1].pc = "returned"
  /\ calls[2].pc = "body"
  /\ calls[2].buf # <<>>
  /\ calls[1].options.kind = "single"
  /\ calls[2].options.kind = "bulk"
  /\ calls[1].reads # <<>>

\* C3: every object URL downloadFile acquires with createObjectURL has been
\* released with revokeObjectURL by the time control has left downloadFile
\* and the handler has finished, on every path, and it is never released
\* before the click that starts the download.
C3_ObjectUrlReleased ==
  \A i \in DOMAIN inv :
    /\ inv[i].pc = "done" => inv[i].url # "live"
    /\ inv[i].url = "revoked" =>
         /\ inv[i].downloads # <<>>
         /\ \A k \in DOMAIN inv[i].downloads : inv[i].downloads[k].url = "live"

\* C9: in both export buttons a failure during an export (a rejected or
\* non-OK fetch, an exporter, filename or download exception) ends with
\* exactly one error toast, no success toast, one attempt at most of each
\* step and no download of anything but the complete blob; a success toast
\* is shown only after downloadFile has returned.
C9_FailureNotifiedOnce ==
  \A i \in DOMAIN inv :
    LET Errors == SelectSeq(inv[i].toasts, LAMBDA t : t.kind = "error")
        Successes == SelectSeq(inv[i].toasts, LAMBDA t : t.kind = "success")
        Failed == inv[i].failedAt # "none"
    IN /\ (inv[i].pc = "done" /\ Failed) =>
            /\ Len(Errors) = 1
            /\ Errors[1] = ExportFailed
            /\ inv[i].fetches <= 1
            /\ inv[i].exports <= 1
            /\ Len(inv[i].downloads) <= 1
            /\ inv[i].failedAt \notin {"click", "removeChild"} => inv[i].downloads = <<>>
            /\ \A k \in DOMAIN inv[i].downloads :
                 inv[i].downloads[k].blob = HandlerBlob(inv[i])
       /\ Failed => Successes = <<>>
       /\ Successes # <<>> => inv[i].returned

C9_Witness ==
  /\ inv[1].pc = "done"
  /\ inv[1].button = "ExportAllButton"
  /\ inv[1].failedAt = "removeChild"
  /\ inv[1].downloads # <<>>
  /\ inv[2].pc = "done"
  /\ inv[2].button = "ExportButton"
  /\ inv[2].failedAt = "export"

\* The files at the paths ContentStore reads: contents/<id> of every id of
\* getAvailableApis.
StoreView(state) == [id \in RecognizedIds |-> state[id]]

\* C8: the content regeneration job is idempotent: from any state of the
\* contents directory, a run to completion followed by further runs leaves
\* the same files with the same contents at the paths ContentStore reads
\* as the first run alone.
C8_JobIdempotent ==
  \A k \in 3..Len(snapshots) : StoreView(snapshots[k]) = StoreView(snapshots[2])

C8_Witness ==
  /\ Len(snapshots) = 3
  /\ snapshots[1]["stripe"].kind = "directory"
  /\ snapshots[1]["stripe"].files["customers.md"] =
       [kind |-> "file", content |-> <<[doc |-> "customers.md", part |-> "introduction"]>>]
  /\ snapshots[1]["stripe"].files["subscriptions.md"].kind = "absent"
  /\ snapshots[1]["sendgrid"].kind = "missing"
  /\ snapshots[1]["twilio"].kind = "directory"
  /\ snapshots[1]["twilio"].files["voice.md"] =
       [kind |-> "file", content |-> <<[doc |-> "voice.md", part |-> "old"]>>]
  /\ snapshots[1]["supabase"].kind = "directory"
  /\ snapshots[1]["supabase"].files["database.md"].kind = "directory"
  /\ \A f \in {"payment-intents.md", "customers.md", "subscriptions.md"} :
       snapshots[2]["stripe"].files[f] = [kind |-> "file", content |-> Document(f)]
  /\ snapshots[2]["sendgrid"].kind = "directory"
  /\ snapshots[2]["supabase"] # snapshots[1]["supabase"]

\* C11: plain-text export deletes every fenced code block entirely: for a
\* content that is plain text around one block opened and closed by three
\* back-ticks, the text output (single and bulk) is the output for an empty
\* content followed by the plain text before and after the block, so neither
\* the fences nor the text between them appear in it.
C11_FencedBlocksDeleted ==
  LET call == calls[1]
      o == call.options
      bare == IF o.kind = "single" THEN o.content.kind = "string"
              ELSE IF Len(o.apis) = 1 THEN o.apis[1].content.kind = "string" ELSE FALSE
      content == IF o.kind = "single" THEN o.content.text ELSE o.apis[1].content.text
      ticks == {i \in DOMAIN content : content[i] = BT}
      open == CHOOSE i \in ticks : \A j \in ticks : i <= j
      close == (CHOOSE i \in ticks : \A j \in ticks : j <= i) - 2
      oneBlock == /\ Cardinality(ticks) = 6
                  /\ ticks = (open..(open + 2)) \cup (close..(close + 2))
      emptied == IF o.kind = "single" THEN [o EXCEPT !.content.text = <<>>]
                 ELSE [o EXCEPT !.apis[1].content.text = <<>>]
  IN IF call.pc = "returned" /\ o.format = "text"
     THEN (bare /\ oneBlock) =>
            call.result.text = ExportText(emptied, call.reads)
                                 \o Slice(content, 1, open - 1)
                                 \o Slice(content, close + 3, Len(content))
     ELSE TRUE

\* C12: in XML export the raw section text passes through unchanged inside
\* the CDATA section of its <data> element: read as XML (a CDATA section
\* ends at the first "]]>"), the character data of the first <data> element
\* is the content of the first section, and the element is closed right
\* after it, also for a content that contains "]]>".
C12_CdataCarriesContent ==
  LET call == calls[1]
      o == call.options
      text == call.result.text
      unit == IF o.kind = "single" THEN o.content
              ELSE IF o.apis # <<>> THEN o.apis[1].content
              ELSE [kind |-> "object", files |-> <<>>]
      hasSection == unit.kind = "string" \/ unit.files # <<>>
      raw == IF unit.kind = "string" THEN unit.text ELSE unit.files[1].content
      start == CHOOSE i \in DOMAIN text :
                 text[i] = "<![CDATA[" /\ \A j \in 1..(i - 1) : text[j] # "<![CDATA["
      EndsAt(i) == \/ text[i] = "]]>"
                   \/ (text[i] = "]" /\ At(text, i + 1) = "]" /\ At(text, i + 2) = ">")
      end == CHOOSE i \in (start + 1)..Len(text) :
               EndsAt(i) /\ \A j \in (start + 1)..(i - 1) : ~EndsAt(j)
      next == IF text[end] = "]]>" THEN At(text, end + 1) ELSE At(text, end + 3)
  IN IF call.pc = "returned" /\ o.format = "xml"
     THEN (~IncludeMetadata(o) /\ hasSection) =>
            /\ Slice(text, start + 1, end - 1) = raw
            /\ next = "</data>"
     ELSE TRUE

\* C13: escapeXML maps each occurrence of & < > " ' to &amp; &lt; &gt; &quot;
\* &apos; and leaves every other character unchanged, whatever the
\* combination and adjacency; the ampersands it writes are not escaped
\* again; and the mapping is injective, the input being recovered from the
\* output by reading the entities back.  Stated of the api name in the <api>
\* element of an XML export.
C13_EscapeXmlEntities ==
  LET call == calls[1]
      o == call.options
      text == call.result.text
      open == CHOOSE i \in DOMAIN text : text[i] = "<api>"
      close == CHOOSE i \in DOMAIN text : text[i] = "</api>"
      escaped == Slice(text, open + 1, close - 1)
      Specials == <<"&", "<", ">", "\"", "'">>
      Entities == << <<"&", "a", "m", "p", ";">>, <<"&", "l", "t", ";">>,
                     <<"&", "g", "t", ";">>, <<"&", "q", "u", "o", "t", ";">>,
                     <<"&", "a", "p", "o", "s", ";">> >>
      Entity(c) == IF \E k \in 1..5 : Specials[k] = c
                   THEN Entities[CHOOSE k \in 1..5 : Specials[k] = c] ELSE <<c>>
      RECURSIVE Unescape(_)
      Unescape(s) ==
        IF s = <<>> THEN <<>>
        ELSE IF \E k \in 1..5 : OccursAt(s, 1, Entities[k])
        THEN LET k == CHOOSE j \in 1..5 : OccursAt(s, 1, Entities[j])
             IN <<Specials[k]>> \o Unescape(Slice(s, Len(Entities[k]) + 1, Len(s)))
        ELSE <<s[1]>> \o Unescape(Tail(s))
  IN IF call.pc = "returned" /\ o.kind = "single" /\ o.format = "xml"
     THEN IncludeMetadata(o) =>
            /\ escaped = Flatten([i \in 1..Len(o.apiName) |-> Entity(o.apiName[i])])
            /\ Unescape(escaped) = o.apiName
     ELSE TRUE

C13_Witness ==
  /\ calls[1].pc = "returned"
  /\ calls[1].options.kind = "single"
  /\ calls[1].options.format = "xml"
  /\ calls[1].options.apiName = <<"<", "<", "&", ">", ">">>
  /\ \E i \in DOMAIN calls[1].result.text :
       /\ calls[1].result.text[i] = "<api>"
       /\ Slice(calls[1].result.text, i + 1, i + 22) =
            <<"&", "l", "t", ";", "&", "l", "t", ";", "&", "a", "m", "p", ";",
              "&", "g", "t", ";", "&", "g", "t", ";", "</api>">>

\* C14: JSON round trip: for every apiName and every content, the parsed
\* output of exportDocument in the json format has apiName under api and
\* the original content under documentation, as {content: <string>} for a
\* bare string and as the original sections, unchanged and in their order,
\* for a structured content.
C14_JsonRoundTrip ==
  LET call == calls[1]
      o == call.options
      parsed == JsonParse(call.result.text)
      Has(key) == \E k \in DOMAIN parsed.pairs : parsed.pairs[k][1] = <<key>>
      Get(key) == parsed.pairs[CHOOSE k \in DOMAIN parsed.pairs :
                                 parsed.pairs[k][1] = <<key>>][2]
      Str(chars) == [t |-> "str", chars |-> chars]
      Arr(items) == [t |-> "arr", items |-> items]
      Obj(pairs) == [t |-> "obj", pairs |-> pairs]
      Section(file) == Obj(<< <<<<"title">>, Str(file.title)>>,
                               <<<<"content">>, Str(file.content)>> >>)
  IN IF call.pc = "returned" /\ o.kind = "single" /\ o.format = "json"
     THEN /\ parsed.t = "obj"
          /\ Has("api")
          /\ Get("api") = Str(o.apiName)
          /\ Has("documentation")
          /\ Get("documentation") =
               IF o.content.kind = "string"
               THEN Obj(<< <<<<"content">>, Str(o.content.text)>> >>)
               ELSE Obj(<< <<<<"files">>,
                              Arr([i \in 1..Len(o.content.files) |->
                                      Section(o.content.files[i])])>> >>)
     ELSE TRUE

C14_Witness ==
  /\ calls[1].pc = "returned"
  /\ calls[1].options.kind = "single"
  /\ calls[1].options.format = "json"
  /\ calls[1].options.apiName = <<"\"", "\\">>
  /\ calls[1].options.content.kind = "string"
  /\ calls[1].options.content.text = <<"\\", "\"", NL>>
  /\ JsonParse(calls[1].result.text).pairs[1] =
       << <<"api">>, [t |-> "str", chars |-> <<"\"", "\\">>] >>

\* C15: exportMultipleApis with an empty apis list does not throw in any of
\* the four formats and returns a complete document: an empty apis array in
\* JSON, a table of contents without entries followed by nothing in
\* Markdown and in text, and an empty <apis> element that ends the document
\* in XML.
C15_EmptyListExports ==
  LET call == calls[1]
      o == call.options
      text == call.result.text
      EndsWith(tail) == Len(text) >= Len(tail)
                          /\ Slice(text, Len(text) - Len(tail) + 1, Len(text)) = tail
      parsed == JsonParse(text)
  IN IF call.pc # "idle" /\ o.kind = "bulk" /\ o.format \in SupportedFormats
     THEN o.apis = <<>> =>
            /\ call.pc # "thrown"
            /\ call.pc = "returned" =>
                 /\ call.result.kind = "blob"
                 /\ CASE o.format = "json" ->
                           /\ parsed.t = "obj"
                           /\ parsed.pairs[Len(parsed.pairs)] = << <<"apis">>, [t |-> "arr", items |-> <<>>] >>
                      [] o.format = "markdown" ->
                           EndsWith(<<"## Table of Contents", NL, NL, NL, "---", NL, NL>>)
                      [] o.format = "text" ->
                           EndsWith(<<"TABLE OF CONTENTS", NL>> \o Repeat("-", TocRuleWidth)
                                    \o <<NL, NL>> \o Repeat("=", RuleWidth) \o <<NL, NL>>)
                      [] o.format = "xml" ->
                           EndsWith(<<"  ", "<apis>", NL, "  ", "</apis>", NL,
                                      "</apiDocumentationCollection>">>)
     ELSE TRUE

C15_Witness ==
  /\ calls[1].pc = "returned"
  /\ calls[1].options.kind = "bulk"
  /\ calls[1].options.format = "json"
  /\ calls[1].options.apis = <<>>
  /\ calls[1].options.includeMetadata
  /\ calls[1].result.kind = "blob"
  /\ JsonParse(calls[1].result.text).pairs[4] = << <<"apis">>, [t |-> "arr", items |-> <<>>] >>

\* C16: in single-unit JSON export the metadata key is present if and only
\* if includeMetadata is true, true being the default when the option is
\* omitted, while api, exportDate, source and documentation are present in
\* both cases.
C16_MetadataKeyOptional ==
  LET call == calls[1]
      o == call.options
      parsed == JsonParse(call.result.text)
      keys == {parsed.pairs[k][1] : k \in DOMAIN parsed.pairs}
      wanted == IF "includeMetadata" \in DOMAIN o THEN o.includeMetadata ELSE TRUE
  IN IF call.pc = "returned" /\ o.kind = "single" /\ o.format = "json"
     THEN /\ parsed.t = "obj"
          /\ <<"metadata">> \in keys <=> wanted
          /\ {<<"api">>, <<"exportDate">>, <<"source">>, <<"documentation">>} \subseteq keys
          /\ Len(parsed.pairs) = Cardinality(keys)
     ELSE TRUE

C16_Witness ==
  /\ calls[1].pc = "returned"
  /\ calls[1].options.kind = "single"
  /\ calls[1].options.format = "json"
  /\ "includeMetadata" \notin DOMAIN calls[1].options
  /\ calls[1].options.content.kind = "object"
  /\ Len(calls[1].options.content.files) = 2
  /\ JsonParse(calls[1].result.text).pairs[4][1] = <<"metadata">>

\* C17: for each of the four formats and for both bare-string and structured
\* content, exportDocument returns a blob that is not empty and whose MIME
\* type is the one fixed for the format: json -> application/json,
\* markdown -> text/markdown, text -> text/plain, xml -> application/xml.
C17_BlobTypeAndContent ==
  LET call == calls[1]
      o == call.options
  IN IF call.pc # "idle" /\ o.kind = "single" /\ o.format \in SupportedFormats
     THEN /\ call.pc # "thrown"
          /\ call.pc = "returned" =>
               /\ call.result.kind = "blob"
               /\ call.result.text # <<>>
               /\ call.result.type =
                    CASE o.format = "json"     -> "application/json"
                      [] o.format = "markdown" -> "text/markdown"
                      [] o.format = "text"     -> "text/plain"
                      [] o.format = "xml"      -> "application/xml"
     ELSE TRUE

C17_Witness ==
  /\ calls[1].pc = "returned"
  /\ calls[1].options.kind = "single"
  /\ calls[1].options.format = "xml"
  /\ calls[1].options.content = [kind |-> "object", files |-> <<>>]
  /\ ~calls[1].options.includeMetadata
  /\ calls[1].result.type = "application/xml"
  /\ calls[1].result.text # <<>>

\* C18: bulk Markdown export emits a table of contents with exactly one
\* numbered entry per API, numbered 1..n in input order, entry i linking to
\* the anchor made of the i-th name in lower case, with each white-space run
\* replaced by one hyphen, and -api appended (Stripe and Sendgrid give
\* stripe-api and sendgrid-api); the rule that closes the table follows the
\* n-th entry.
C18_TableOfContents ==
  LET call == calls[1]
      o == call.options
      text == call.result.text
      Image(seq) == [k \in DOMAIN seq |-> ToString(seq[k])]
      heading == CHOOSE i \in DOMAIN text : ToString(text[i]) = ToString("## Table of Contents")
      AnchorOf(name) ==
        CASE name = <<"S", "t", "r", "i", "p", "e">> -> <<"s", "t", "r", "i", "p", "e">>
          [] name = <<"S", "e", "n", "d", "g", "r", "i", "d">> ->
               <<"s", "e", "n", "d", "g", "r", "i", "d">>
          [] name = <<"M", "y", " ", "\t", "A", "p", "i", " ", "2">> ->
               <<"m", "y", "-", "a", "p", "i", "-", "2">>
      Entry(i) == <<i, ". ", "[">> \o o.apis[i].name \o <<" API", "]", "(", "#">>
                  \o AnchorOf(o.apis[i].name) \o <<"-api", ")", NL>>
      table == <<NL, NL>> \o Flatten([i \in 1..Len(o.apis) |-> Entry(i)])
               \o <<NL, "---", NL, NL>>
  IN IF call.pc = "returned" /\ o.kind = "bulk" /\ o.format = "markdown"
     THEN Image(Slice(text, heading + 1, heading + Len(table))) = Image(table)
     ELSE TRUE

C18_Witness ==
  /\ calls[1].pc = "returned"
  /\ calls[1].options.kind = "bulk"
  /\ calls[1].options.format = "markdown"
  /\ Len(calls[1].options.apis) = 3
  /\ calls[1].options.apis[1].name = <<"M", "y", " ", "\t", "A", "p", "i", " ", "2">>
  /\ calls[1].options.apis[2].name = <<"S", "t", "r", "i", "p", "e">>
  /\ calls[1].options.apis[3].name = <<"S", "e", "n", "d", "g", "r", "i", "d">>
  /\ \E i \in DOMAIN calls[1].result.text :
       /\ ToString(calls[1].result.text[i]) = ToString("#")
       /\ Slice(calls[1].result.text, i + 1, i + 9) =
            <<"m", "y", "-", "a", "p", "i", "-", "2", "-api">>

\* C19: single-unit Markdown export of a structured content with n sections
\* emits the sections in input order, each as a ## heading followed by its
\* content, with a horizontal rule between every two consecutive sections
\* (n-1 rules for n >= 1) and none before the first section, which follows
\* the byline directly, or after the last one, which ends the document.
C19_SectionsAndRules ==
  LET call == calls[1]
      o == call.options
      text == call.result.text
      files == o.content.files
      Section(i) == (IF i > 1 THEN <<NL, NL, "---", NL, NL>> ELSE <<>>)
                    \o <<"## ">> \o files[i].title \o <<NL, NL>> \o files[i].content
      body == Flatten([i \in 1..Len(files) |-> Section(i)])
      start == Len(text) - Len(body) + 1
  IN IF call.pc = "returned" /\ o.kind = "single" /\ o.format = "markdown"
     THEN o.content.kind = "object" =>
            /\ start > 4
            /\ Slice(text, start, Len(text)) = body
            /\ text[start - 4] = "> Exported from API Context Hub on "
            /\ Slice(text, start - 2, start - 1) = <<NL, NL>>
            /\ Cardinality({k \in start..Len(text) : text[k] = "---"})
                 = IF files = <<>> THEN 0 ELSE Len(files) - 1
     ELSE TRUE

C19_Witness ==
  /\ calls[1].pc = "returned"
  /\ calls[1].options.kind = "single"
  /\ calls[1].options.format = "markdown"
  /\ ~calls[1].options.includeMetadata
  /\ calls[1].options.content.kind = "object"
  /\ Len(calls[1].options.content.files) = 3
  /\ calls[1].options.content.files[1] # calls[1].options.content.files[2]
  /\ Cardinality({k \in DOMAIN calls[1].result.text : calls[1].result.text[k] = "---"}) = 2

\* C20: in bulk Markdown export a horizontal rule separates consecutive API
\* entries, and no horizontal rule is emitted before the heading of the first
\* API entry.
C20_RuleBetweenApisOnly ==
  LET call == calls[1]
      o == call.options
      text == call.result.text
      Image(seq) == [k \in DOMAIN seq |-> ToString(seq[k])]
      headings == {i \in DOMAIN text : ToString(text[i]) = ToString("# ")}
      first == CHOOSE i \in headings : \A j \in headings : i <= j
  IN IF call.pc = "returned" /\ o.kind = "bulk" /\ o.format = "markdown"
     THEN o.apis # <<>> =>
            /\ Cardinality(headings) = Len(o.apis)
            /\ \A h \in headings \ {first} :
                 Image(Slice(text, h - 5, h - 1)) = Image(<<NL, NL, "---", NL, NL>>)
            /\ Image(Slice(text, first - 3, first - 1)) # Image(<<"---", NL, NL>>)
     ELSE TRUE

\* C21: in every bulk format the entries of the body are the APIs of the
\* input, one entry per API and in input order, and when metadata is
\* included its totalApis value is the number of those entries; in bulk JSON
\* each entry is {name, documentation}, documentation being the content of
\* the input as it is: a string for a bare string, the files for a
\* structured content.
C21_TotalApisAndOrder ==
  LET call == calls[1]
      o == call.options
      text == call.result.text
      n == Len(o.apis)
      Image(seq) == [k \in DOMAIN seq |-> ToString(seq[k])]
      Is(i, s) == i >= 1 /\ i <= Len(text) /\ ToString(text[i]) = ToString(s)
      Str(chars) == [t |-> "str", chars |-> chars]
      Arr(items) == [t |-> "arr", items |-> items]
      Obj(pairs) == [t |-> "obj", pairs |-> pairs]
      parsed == JsonParse(text)
      Get(v, key) == v.pairs[CHOOSE k \in DOMAIN v.pairs : v.pairs[k][1] = <<key>>][2]
      Has(v, key) == \E k \in DOMAIN v.pairs : v.pairs[k][1] = <<key>>
      Documentation(content) ==
        IF content.kind = "string" THEN Str(content.text)
        ELSE Obj(<< <<<<"files">>,
                      Arr([i \in 1..Len(content.files) |->
                             Obj(<< <<<<"title">>, Str(content.files[i].title)>>,
                                    <<<<"content">>, Str(content.files[i].content)>> >>)])>> >>)
      UpperOf(name) ==
        CASE name = <<"S", "t", "r", "i", "p", "e">> -> <<"S", "T", "R", "I", "P", "E">>
          [] name = <<"S", "e", "n", "d", "g", "r", "i", "d">> ->
               <<"S", "E", "N", "D", "G", "R", "I", "D">>
          [] name = <<"M", "y", " ", "\t", "A", "p", "i", " ", "2">> ->
               <<"M", "Y", " ", "\t", "A", "P", "I", " ", "2">>
      \* Where the entries of the body start, and what entry k starts with.
      heads ==
        CASE o.format = "markdown" -> {i \in DOMAIN text : Is(i, "# ")}
          [] o.format = "xml"      -> {i \in DOMAIN text : Is(i, "<name>")}
          [] o.format = "text"     ->
               {i \in DOMAIN text :
                  \E m \in 1..Len(text) :
                     /\ Is(i + m, " API") /\ Is(i + m + 1, NL)
                     /\ Is(i + m + 2, [ch |-> "=", times |-> m + 4])
                     /\ \A j \in i..(i + m - 1) : ~Is(j, NL)
                     /\ Is(i - 1, NL)}
      Opening(k) ==
        CASE o.format = "markdown" -> <<"# ">> \o o.apis[k].name \o <<" API", NL, NL>>
          [] o.format = "xml"      -> <<"<name>">> \o o.apis[k].name \o <<"</name>", NL>>
          [] o.format = "text"     ->
               UpperOf(o.apis[k].name)
               \o <<" API", NL, [ch |-> "=", times |-> Len(o.apis[k].name) + 4], NL, NL>>
      label == CASE o.format = "markdown" -> "totalApis: "
                 [] o.format = "xml"      -> "<totalApis>"
                 [] o.format = "text"     -> "Total APIs: "
  IN IF call.pc = "returned" /\ o.kind = "bulk"
     THEN IF o.format = "json"
          THEN /\ parsed.t = "obj"
               /\ Has(parsed, "apis")
               /\ Get(parsed, "apis") =
                    Arr([k \in 1..n |->
                           Obj(<< <<<<"name">>, Str(o.apis[k].name)>>,
                                  <<<<"documentation">>,
                                    Documentation(o.apis[k].content)>> >>)])
               /\ o.includeMetadata =>
                    /\ Has(parsed, "metadata")
                    /\ Has(Get(parsed, "metadata"), "totalApis")
                    /\ Get(Get(parsed, "metadata"), "totalApis") =
                         [t |-> "num", n |-> Len(Get(parsed, "apis").items)]
          ELSE /\ Cardinality(heads) = n
               /\ \A h \in heads :
                    LET k == Cardinality({g \in heads : g <= h})
                    IN Image(Slice(text, h, h + Len(Opening(k)) - 1)) = Image(Opening(k))
               /\ o.includeMetadata =>
                    \E i \in DOMAIN text :
                       /\ Is(i, label)
                       /\ Is(i + 1, Cardinality(heads))
     ELSE TRUE

C21_Witness ==
  /\ calls[1].pc = "returned"
  /\ calls[1].options.kind = "bulk"
  /\ calls[1].options.format = "json"
  /\ calls[1].options.includeMetadata
  /\ Len(calls[1].options.apis) = 3
  /\ calls[1].options.apis[1].content.kind = "object"
  /\ calls[1].options.apis[2].content.kind = "string"
  /\ calls[1].options.apis[3].content.kind = "object"
  /\ calls[1].options.apis[1].name # calls[1].options.apis[3].name
  /\ JsonParse(calls[1].result.text).pairs[3][2].pairs[4] =
       << <<"totalApis">>, [t |-> "num", n |-> 3] >>
  /\ JsonParse(calls[1].result.text).pairs[4][2].items[2].pairs[2] =
       << <<"documentation">>, [t |-> "str", chars |-> <<"#", " ", "*", "a", "*">>] >>

\* C22: bulk XML export writes the sections of each API as single-unit XML
\* export writes the sections of the same content: for a bare string and
\* for a structured content alike, the <section> elements between
\* <documentation> and </documentation> of the k-th <api> are, indentation
\* set aside, the elements between <content> and </content> of the
\* single-unit export of the k-th content (a title only for a titled
\* section, the title escaped, the data in a CDATA section).
C22_BulkSectionsAsSingle ==
  LET call == calls[1]
      o == call.options
      text == call.result.text
      Pads == {"  ", "    ", "      ", "        "}
      Is(seq, i, s) == i >= 1 /\ i <= Len(seq) /\ ToString(seq[i]) = ToString(s)
      Positions(seq, s) == {i \in DOMAIN seq : Is(seq, i, s)}
      Kth(S, k) == CHOOSE i \in S : Cardinality({j \in S : j <= i}) = k
      NotPad(token) == token \notin Pads
      Between(seq, from, to) == SelectSeq(Slice(seq, from + 1, to - 1), NotPad)
      single(content) ==
        exportDocument([format |-> "xml", apiName |-> <<"a">>, content |-> content,
                        includeMetadata |-> FALSE, kind |-> "single"], <<>>).text
      SingleSections(content) ==
        Between(single(content),
                Kth(Positions(single(content), "<content>"), 1),
                Kth(Positions(single(content), "</content>"), 1))
      BulkSections(k) ==
        Between(text,
                Kth(Positions(text, "<documentation>"), k),
                Kth(Positions(text, "</documentation>"), k))
  IN IF call.pc = "returned" /\ o.kind = "bulk" /\ o.format = "xml"
     THEN /\ Cardinality(Positions(text, "<documentation>")) = Len(o.apis)
          /\ Cardinality(Positions(text, "</documentation>")) = Len(o.apis)
          /\ \A k \in 1..Len(o.apis) : BulkSections(k) = SingleSections(o.apis[k].content)
     ELSE TRUE

C22_Witness ==
  /\ calls[1].pc = "returned"
  /\ calls[1].options.kind = "bulk"
  /\ calls[1].options.format = "xml"
  /\ Len(calls[1].options.apis) = 1
  /\ calls[1].options.apis[1].content.kind = "object"
  /\ Len(calls[1].options.apis[1].content.files) = 2
  /\ calls[1].options.apis[1].content.files[2].title = <<"M", "\"", "l">>
  /\ \E i \in DOMAIN calls[1].result.text :
       Slice(calls[1].result.text, i, i + 10) =
         <<"<title>", "M", "&", "q", "u", "o", "t", ";", "l", "</title>", NL>>

\* C23: generateFilename(apiName, format) returns apiName in lower case,
\* then -api-docs-, then the date of the clock value read by the call as
\* YYYY-MM-DD, then getFileExtension(format); two calls with the same
\* arguments that read the same clock value return the same name.
C23_FilenameDeterministic ==
  LET LowerOf(name) ==
        CASE name = <<"S", "t", "r", "i", "p", "e">> -> <<"s", "t", "r", "i", "p", "e">>
          [] name = <<"S", "e", "n", "d", "G", "r", "i", "d">> ->
               <<"s", "e", "n", "d", "g", "r", "i", "d">>
          [] name = <<"M", "y", " ", "A", "P", "I">> -> <<"m", "y", " ", "a", "p", "i">>
          [] name = <<>> -> <<>>
      Filenames == {c \in DOMAIN calls : calls[c].pc = "returned"
                                          /\ calls[c].options.kind = "filename"}
  IN /\ \A c \in Filenames :
          calls[c].result =
            LowerOf(calls[c].options.apiName) \o <<"-api-docs-", calls[c].reads[1].date>>
            \o <<getFileExtension(calls[c].options.format)>>
     /\ \A c, d \in Filenames :
          (calls[c].options = calls[d].options /\ calls[c].reads = calls[d].reads)
            => calls[c].result = calls[d].result

C23_Witness ==
  /\ calls[1].pc = "returned"
  /\ calls[1].options = [kind |-> "filename", apiName |-> <<"S", "t", "r", "i", "p", "e">>,
                         format |-> "json"]
  /\ calls[1].reads[1].date = "2025-06-19"
  /\ calls[1].result = <<"s", "t", "r", "i", "p", "e", "-api-docs-", "2025-06-19", ".json">>
  /\ calls[2].pc = "returned"
  /\ calls[2].options = calls[1].options
  /\ calls[2].reads[1].date = "2025-06-20"
  /\ calls[2].result # calls[1].result

\* C24: getFileExtension returns .json, .md, .txt and .xml for json,
\* markdown, text and xml, and .txt for every other value: a format for
\* which exportDocument throws still has an extension, and generateFilename
\* returns a name that ends with it.
C24_ExtensionNeverFails ==
  \A c \in DOMAIN calls :
     (calls[c].pc = "returned" /\ calls[c].options.kind = "filename") =>
        /\ calls[c].result # <<>>
        /\ calls[c].result[Len(calls[c].result)] =
             CASE calls[c].options.format = "json"     -> ".json"
               [] calls[c].options.format = "markdown" -> ".md"
               [] calls[c].options.format = "text"     -> ".txt"
               [] calls[c].options.format = "xml"      -> ".xml"
               [] OTHER                                -> ".txt"

C24_Witness ==
  /\ calls[1].pc = "returned"
  /\ calls[1].options.kind = "filename"
  /\ calls[1].options.format = "pdf"
  /\ exportDocument([format |-> "pdf", apiName |-> calls[1].options.apiName,
                     content |-> BareContent, kind |-> "single"], <<>>).kind = "throw"
  /\ calls[1].result[Len(calls[1].result)] = ".txt"

\* C25: isExporting of a button is true once a handler of the button has
\* started and false once the handler has finished, whichever way it ends
\* (download done, response not ok, fetch or response.json() rejected, empty
\* or missing list, exporter or download call thrown); when every fetch
\* settles, a button that is busy is enabled again.
C25_BusyFlagCleared ==
  /\ [][\A i \in DOMAIN inv :
          /\ (inv[i].pc = "idle" /\ inv'[i].pc # "idle") => isExporting'[inv'[i].button]
          /\ (inv[i].pc # "done" /\ inv'[i].pc = "done") => ~isExporting'[inv[i].button]]_vars
  /\ \A b \in Buttons : isExporting[b] ~> ~isExporting[b]

C25_Witness ==
  /\ inv[1].pc = "done"
  /\ inv[1].button = "ExportAllButton"
  /\ inv[1].failedAt = "export"
  /\ inv[1].toasts = <<[kind |-> "error", message |-> "Export failed. Please try again."]>>
  /\ inv[2].pc = "done"
  /\ inv[2].button = "ExportAllButton"
  /\ inv[2].failedAt = "none"
  /\ inv[2].toasts = <<[kind |-> "error", message |-> "No APIs available to export"]>>
  /\ ~isExporting["ExportAllButton"]

\* C26: whatever the interleaving of handleExportAll invocations, overlapping
\* ones included, isExporting of the Export All button is true in every
\* state in which an invocation has started and has not finished.
C26_FlagHeldWhileInFlight ==
  (\E i \in DOMAIN inv : inv[i].button = "ExportAllButton" /\ inv[i].pc \notin {"idle", "done"})
    => isExporting["ExportAllButton"]

\* C27: when the body of the /api/export response has no apis list or an
\* empty one, the Export All handler shows an error notification and
\* returns: it does not call exportMultipleApis, starts no download and
\* shows no success notification; exportMultipleApis is called by the
\* handler with at least one API only.
C27_EmptyListNotExported ==
  \A i \in DOMAIN inv :
     inv[i].button = "ExportAllButton" =>
       /\ (/\ inv[i].pc \in {"export", "finally", "done"}
           /\ inv[i].body.kind = "data"
           /\ IF "apis" \in DOMAIN inv[i].body.data THEN inv[i].body.data.apis = <<>>
              ELSE TRUE)
            => /\ inv[i].pc # "export"
               /\ inv[i].exports = 0
               /\ inv[i].downloads = <<>>
               /\ inv[i].toasts =
                    <<[kind |-> "error", message |-> "No APIs available to export"]>>
               /\ inv[i].failedAt = "none"
       /\ (inv[i].pc = "export" \/ inv[i].exports > 0) => Len(inv[i].data) >= 1

C27_Witness ==
  /\ inv[1].button = "ExportAllButton"
  /\ inv[1].pc = "done"
  /\ inv[1].body = [kind |-> "data", data |-> [apis |-> <<>>]]
  /\ inv[1].exports = 0
  /\ inv[1].toasts = <<[kind |-> "error", message |-> "No APIs available to export"]>>
  /\ inv[2].button = "ExportAllButton"
  /\ inv[2].pc = "done"
  /\ inv[2].body = [kind |-> "data", data |-> [error |-> "Failed to fetch API content"]]
  /\ inv[2].exports = 0
  /\ inv[2].toasts = inv[1].toasts

\* C28: main runs the collectors one after the other in the order Stripe,
\* SendGrid, Twilio, Supabase: a run starts with the first, a collector that
\* has saved its last document or has failed is followed by the next one,
\* a failure is logged under the name of the collector that failed, and main
\* ends only after the last collector, so that every collector is attempted
\* once in every run whatever failed before it.
C28_CollectorsInOrder ==
  [][LET Order == <<"stripe", "sendgrid", "twilio", "supabase">>
         from == jobPc.collector
         to == jobPc'.collector
     IN /\ to # from =>
             /\ from = 0 => to = 1
             /\ from \in 1..4 => to = from + 1
             /\ from = 5 => to = 0
             /\ to \in 1..4 => CurrentCollector' = Order[to]
        /\ jobLog' # jobLog =>
             /\ from \in 1..4
             /\ to = from + 1
             /\ jobLog' = Append(jobLog, [collector |-> Order[from],
                                          file |-> jobLog'[Len(jobLog')].file])
        /\ (to = from /\ from \in 1..4) => (jobLog' = jobLog /\ jobPc'.file = jobPc.file + 1)
    ]_vars

C28_Witness ==
  /\ Len(snapshots) = 1
  /\ jobPc.collector = 5
  /\ Len(jobLog) = 2
  /\ jobLog[1].collector = "stripe"
  /\ jobLog[2].collector = "twilio"
  /\ fs["sendgrid"].kind = "directory"
  /\ fs["supabase"].kind = "directory"
  /\ \A f \in {"auth.md", "database.md", "storage.md"} : fs["supabase"].files[f].kind = "file"

C30_LanguageEnOrJa ==
  LET StartsWithJa ==
        CASE i18n.browser = <<"j", "a">> -> TRUE
          [] i18n.browser = <<"J", "A", "-", "J", "P">> -> TRUE
          [] OTHER -> FALSE
      Restored ==
        IF i18n.stored.present /\ i18n.stored.value \in {"en", "ja"} THEN i18n.stored.value
        ELSE IF StartsWithJa THEN "ja" ELSE "en"
  IN /\ i18n.language \in {"en", "ja"}
     /\ (i18n.mounted /\ i18n.effect = "settled") => i18n.language = Restored
     /\ i18n.event = "set" =>
          /\ i18n.arg \in {"en", "ja"}
          /\ i18n.language = i18n.arg
          /\ i18n.stored = [present |-> TRUE, value |-> i18n.arg]
     /\ (i18n.arg # "none" /\ i18n.event # "none") =>
          i18n.stored = [present |-> TRUE, value |-> i18n.arg]

C30_Witness ==
  /\ i18n.mounted
  /\ i18n.event = "effect"
  /\ i18n.arg = "ja"
  /\ i18n.language = "ja"
  /\ i18n.browser = <<"e", "n", "-", "U", "S">>
  /\ i18n.stored = [present |-> TRUE, value |-> "ja"]

====
